---------------------------- MODULE Spec2Model ----------------------------
(***************************************************************************)
(* Model of the batch scripts under src/scripts/archive:                   *)
(*   - utils.py            folder-name validation and scan_modality_root   *)
(*   - audio_quality.py    the parallel per-file audio metric extractor    *)
(*   - audio_quality_daily.py, image_quality_daily.py,                     *)
(*     logs_daily_summary.py   the daily aggregators                       *)
(*   - parse_logs_to_csv.py    the log flattener                           *)
(*   - join_audio_quality_and_sensor_daily.py, daily_join.py   the joins   *)
(*   - audio_amplitude_scan_sampled.py, parse_traffic_sound_json.py        *)
(*   - scan_dataset.py         the two-root scan and its summary files     *)
(*                                                                         *)
(* Strings the code inspects character by character (folder names, date    *)
(* strings) are sequences of one-character strings.  Metric values are     *)
(* integers (tenths of the unit), a mean is an exact reduced fraction.     *)
(***************************************************************************)
EXTENDS Integers, Sequences, FiniteSets, TLC

VARIABLES
    prog,             \* which script this run executes
    pandas,           \* how the installed pandas parses a date column
    \* ---- utils.scan_modality_root
    root_entries,     \* the modality root: name -> [isdir, content]
    modality,         \* the modality tag passed in
    scan_pc,          \* position in scan_modality_root
    candidates,       \* list_candidate_folders(root_path)
    scan_i,           \* index of the next candidate of the for loop
    valid_records,    \* utils.py:172
    invalid_records,  \* utils.py:173
    \* ---- audio_quality_daily / image_quality_daily / logs_daily_summary
    in_csv,           \* the input CSV on disk: [exists, rows]
    in_has_date,      \* whether the input CSV has a column named date
    out_csv,          \* the output CSV on disk: [exists, rows]
    out_writes,       \* number of to_csv calls on the output
    agg_pc,           \* position in main
    df,               \* the loaded frame
    daily,            \* the aggregated frame
    \* ---- audio_quality.py
    tree,             \* the files under audio_root
    calendar,         \* calendar_dates: [restrict, dates]
    workers,          \* size of the Pool
    all_files,        \* audio_quality.py:134
    tasks,            \* submitted files no worker has taken yet (indices)
    running,          \* worker -> index of the file it processes, 0 when idle
    outq,             \* results sent back, in completion order
    rows,             \* audio_quality.py:145
    errors,           \* audio_quality.py:146
    pool_pc,          \* position in main
    aq_output,        \* the output CSV on disk
    aq_writes,        \* number of to_csv calls on the output
    \* ---- parse_logs_to_csv.py
    logs_root,        \* the logs folder: file name -> its lines
    max_lines,        \* args.max_lines: [given, n]
    log_files,        \* parse_logs_to_csv.py:164
    lf_i,             \* index of the current file of the outer for loop
    line_i,           \* index of the next line of the current file
    total_lines,      \* parse_logs_to_csv.py:183
    parsed,           \* parse_logs_to_csv.py:184
    fl_errors,        \* parse_logs_to_csv.py:185 (errors)
    warnings,         \* number of logging.warning calls
    flat_out,         \* the output CSV on disk: [exists, rows]
    flat_hdr,         \* the columns of the header row of the output CSV
    flat_runs,        \* how many times the script was started
    flat_first,       \* the output CSV as the first run left it
    flat_pc,          \* position in main
    \* ---- join_audio_quality_and_sensor_daily.py / daily_join.py
    join_in,          \* the input tables on disk
    joined,           \* the merged frame: [cols, rows]
    join_out,         \* the output CSV on disk: [exists, cols, rows]
    corr_out,         \* daily_join's correlation matrix on disk: [exists, cols]
    join_err,         \* what the exception that ended the run names
    join_pc,          \* position in the script
    \* ---- audio_amplitude_scan_sampled.py / parse_traffic_sound_json.py
    ex_in,            \* the folder the script reads: [exists, entries]
    ex_i,             \* index of the next folder or log file of the loop
    ex_rows,          \* rows (the list main builds)
    ex_out,           \* the output CSV on disk: [exists, rows]
    ex_pc,            \* position in main
    \* ---- scan_dataset.py
    ds_roots,         \* the two modality roots: [img, snd], each [exists, entries]
    ds_scans,         \* the four record lists scan_dataset holds
    ds_out,           \* the two summary files on disk
    ds_pc,            \* position in scan_dataset
    \* ---- utils.py: compute_folder_stats
    st_content,       \* the folder given to the function: [listable, children]
    st_result,        \* what the call returned: <<file_count, total_size>>
    st_pc,            \* "idle", "call" or "returned"
    \* ---- validate_scan.py
    val_report,       \* the four lists main prints: missing and unexpected dates
    val_pc,           \* position in main
    \* ---- folder_pairing.py
    pair_sets,        \* img_set and snd_set
    pair_out,         \* folder_pairing_summary.csv on disk: [exists, rows]
    pair_pc           \* position in main

scanVars == <<root_entries, modality, scan_pc, candidates, scan_i,
              valid_records, invalid_records>>

aggVars == <<in_csv, in_has_date, out_csv, out_writes, agg_pc, df, daily>>

poolVars == <<tree, calendar, workers, all_files, tasks, running, outq, rows,
              errors, pool_pc, aq_output, aq_writes>>

flatVars == <<logs_root, max_lines, log_files, lf_i, line_i, total_lines,
              parsed, fl_errors, warnings, flat_out, flat_hdr, flat_runs,
              flat_first, flat_pc>>

joinVars == <<join_in, joined, join_out, corr_out, join_err, join_pc>>

exVars == <<ex_in, ex_i, ex_rows, ex_out, ex_pc>>

dsVars == <<ds_roots, ds_scans, ds_out, ds_pc>>

\* The variables of the scripts of the second half of the pipeline.
lateVars == <<st_content, st_result, st_pc, val_report, val_pc, pair_sets,
             pair_out, pair_pc>>

restVars == <<flatVars, joinVars, exVars, dsVars, lateVars>>

vars == <<prog, pandas, scanVars, aggVars, poolVars, restVars>>

\* The two ways a pandas parses a column of date texts: before 2.0 every
\* cell on its own, from 2.0 on with the format guessed from the first cell.
\* A script that parses no date column runs the same under both.
PandasParsers == {"cell by cell", "format of the first cell"}

(***************************************************************************)
(* Bounds of the model.                                                    *)
(***************************************************************************)
MaxEntries == 2       \* entries under a modality root
MaxRows == 3          \* records of an aggregator's input table
MaxFiles == 3         \* files under audio_root
MaxWorkers == 2       \* worker processes of the Pool

(***************************************************************************)
(* Characters and strings.  A string is a sequence of characters.  A       *)
(* printable ASCII character other than the grave accent, tab, newline,    *)
(* form feed and carriage return are written as themselves; any other      *)
(* character is written by its code point in hexadecimal, "u0663".  The    *)
(* alphabet is ASCII, Latin-1, the decimal digits and the white space of   *)
(* Unicode, and the Kelvin sign.                                           *)
(***************************************************************************)
\* The characters \d matches in a str pattern and int() reads: the decimal
\* digits of Unicode, ten to a block, in the order of their code points.
DigitChars ==
  <<"0", "1", "2", "3", "4", "5", "6", "7", "8", "9", "u0660", "u0661",
    "u0662", "u0663", "u0664", "u0665", "u0666", "u0667", "u0668", "u0669",
    "u06f0", "u06f1", "u06f2", "u06f3", "u06f4", "u06f5", "u06f6", "u06f7",
    "u06f8", "u06f9", "u07c0", "u07c1", "u07c2", "u07c3", "u07c4", "u07c5",
    "u07c6", "u07c7", "u07c8", "u07c9", "u0966", "u0967", "u0968", "u0969",
    "u096a", "u096b", "u096c", "u096d", "u096e", "u096f", "u09e6", "u09e7",
    "u09e8", "u09e9", "u09ea", "u09eb", "u09ec", "u09ed", "u09ee", "u09ef",
    "u0a66", "u0a67", "u0a68", "u0a69", "u0a6a", "u0a6b", "u0a6c", "u0a6d",
    "u0a6e", "u0a6f", "u0ae6", "u0ae7", "u0ae8", "u0ae9", "u0aea", "u0aeb",
    "u0aec", "u0aed", "u0aee", "u0aef", "u0b66", "u0b67", "u0b68", "u0b69",
    "u0b6a", "u0b6b", "u0b6c", "u0b6d", "u0b6e", "u0b6f", "u0be6", "u0be7",
    "u0be8", "u0be9", "u0bea", "u0beb", "u0bec", "u0bed", "u0bee", "u0bef",
    "u0c66", "u0c67", "u0c68", "u0c69", "u0c6a", "u0c6b", "u0c6c", "u0c6d",
    "u0c6e", "u0c6f", "u0ce6", "u0ce7", "u0ce8", "u0ce9", "u0cea", "u0ceb",
    "u0cec", "u0ced", "u0cee", "u0cef", "u0d66", "u0d67", "u0d68", "u0d69",
    "u0d6a", "u0d6b", "u0d6c", "u0d6d", "u0d6e", "u0d6f", "u0de6", "u0de7",
    "u0de8", "u0de9", "u0dea", "u0deb", "u0dec", "u0ded", "u0dee", "u0def",
    "u0e50", "u0e51", "u0e52", "u0e53", "u0e54", "u0e55", "u0e56", "u0e57",
    "u0e58", "u0e59", "u0ed0", "u0ed1", "u0ed2", "u0ed3", "u0ed4", "u0ed5",
    "u0ed6", "u0ed7", "u0ed8", "u0ed9", "u0f20", "u0f21", "u0f22", "u0f23",
    "u0f24", "u0f25", "u0f26", "u0f27", "u0f28", "u0f29", "u1040", "u1041",
    "u1042", "u1043", "u1044", "u1045", "u1046", "u1047", "u1048", "u1049",
    "u1090", "u1091", "u1092", "u1093", "u1094", "u1095", "u1096", "u1097",
    "u1098", "u1099", "u17e0", "u17e1", "u17e2", "u17e3", "u17e4", "u17e5",
    "u17e6", "u17e7", "u17e8", "u17e9", "u1810", "u1811", "u1812", "u1813",
    "u1814", "u1815", "u1816", "u1817", "u1818", "u1819", "u1946", "u1947",
    "u1948", "u1949", "u194a", "u194b", "u194c", "u194d", "u194e", "u194f",
    "u19d0", "u19d1", "u19d2", "u19d3", "u19d4", "u19d5", "u19d6", "u19d7",
    "u19d8", "u19d9", "u1a80", "u1a81", "u1a82", "u1a83", "u1a84", "u1a85",
    "u1a86", "u1a87", "u1a88", "u1a89", "u1a90", "u1a91", "u1a92", "u1a93",
    "u1a94", "u1a95", "u1a96", "u1a97", "u1a98", "u1a99", "u1b50", "u1b51",
    "u1b52", "u1b53", "u1b54", "u1b55", "u1b56", "u1b57", "u1b58", "u1b59",
    "u1bb0", "u1bb1", "u1bb2", "u1bb3", "u1bb4", "u1bb5", "u1bb6", "u1bb7",
    "u1bb8", "u1bb9", "u1c40", "u1c41", "u1c42", "u1c43", "u1c44", "u1c45",
    "u1c46", "u1c47", "u1c48", "u1c49", "u1c50", "u1c51", "u1c52", "u1c53",
    "u1c54", "u1c55", "u1c56", "u1c57", "u1c58", "u1c59", "ua620", "ua621",
    "ua622", "ua623", "ua624", "ua625", "ua626", "ua627", "ua628", "ua629",
    "ua8d0", "ua8d1", "ua8d2", "ua8d3", "ua8d4", "ua8d5", "ua8d6", "ua8d7",
    "ua8d8", "ua8d9", "ua900", "ua901", "ua902", "ua903", "ua904", "ua905",
    "ua906", "ua907", "ua908", "ua909", "ua9d0", "ua9d1", "ua9d2", "ua9d3",
    "ua9d4", "ua9d5", "ua9d6", "ua9d7", "ua9d8", "ua9d9", "ua9f0", "ua9f1",
    "ua9f2", "ua9f3", "ua9f4", "ua9f5", "ua9f6", "ua9f7", "ua9f8", "ua9f9",
    "uaa50", "uaa51", "uaa52", "uaa53", "uaa54", "uaa55", "uaa56", "uaa57",
    "uaa58", "uaa59", "uabf0", "uabf1", "uabf2", "uabf3", "uabf4", "uabf5",
    "uabf6", "uabf7", "uabf8", "uabf9", "uff10", "uff11", "uff12", "uff13",
    "uff14", "uff15", "uff16", "uff17", "uff18", "uff19", "u104a0", "u104a1",
    "u104a2", "u104a3", "u104a4", "u104a5", "u104a6", "u104a7", "u104a8",
    "u104a9", "u10d30", "u10d31", "u10d32", "u10d33", "u10d34", "u10d35",
    "u10d36", "u10d37", "u10d38", "u10d39", "u11066", "u11067", "u11068",
    "u11069", "u1106a", "u1106b", "u1106c", "u1106d", "u1106e", "u1106f",
    "u110f0", "u110f1", "u110f2", "u110f3", "u110f4", "u110f5", "u110f6",
    "u110f7", "u110f8", "u110f9", "u11136", "u11137", "u11138", "u11139",
    "u1113a", "u1113b", "u1113c", "u1113d", "u1113e", "u1113f", "u111d0",
    "u111d1", "u111d2", "u111d3", "u111d4", "u111d5", "u111d6", "u111d7",
    "u111d8", "u111d9", "u112f0", "u112f1", "u112f2", "u112f3", "u112f4",
    "u112f5", "u112f6", "u112f7", "u112f8", "u112f9", "u11450", "u11451",
    "u11452", "u11453", "u11454", "u11455", "u11456", "u11457", "u11458",
    "u11459", "u114d0", "u114d1", "u114d2", "u114d3", "u114d4", "u114d5",
    "u114d6", "u114d7", "u114d8", "u114d9", "u11650", "u11651", "u11652",
    "u11653", "u11654", "u11655", "u11656", "u11657", "u11658", "u11659",
    "u116c0", "u116c1", "u116c2", "u116c3", "u116c4", "u116c5", "u116c6",
    "u116c7", "u116c8", "u116c9", "u11730", "u11731", "u11732", "u11733",
    "u11734", "u11735", "u11736", "u11737", "u11738", "u11739", "u118e0",
    "u118e1", "u118e2", "u118e3", "u118e4", "u118e5", "u118e6", "u118e7",
    "u118e8", "u118e9", "u11950", "u11951", "u11952", "u11953", "u11954",
    "u11955", "u11956", "u11957", "u11958", "u11959", "u11c50", "u11c51",
    "u11c52", "u11c53", "u11c54", "u11c55", "u11c56", "u11c57", "u11c58",
    "u11c59", "u11d50", "u11d51", "u11d52", "u11d53", "u11d54", "u11d55",
    "u11d56", "u11d57", "u11d58", "u11d59", "u11da0", "u11da1", "u11da2",
    "u11da3", "u11da4", "u11da5", "u11da6", "u11da7", "u11da8", "u11da9",
    "u16a60", "u16a61", "u16a62", "u16a63", "u16a64", "u16a65", "u16a66",
    "u16a67", "u16a68", "u16a69", "u16ac0", "u16ac1", "u16ac2", "u16ac3",
    "u16ac4", "u16ac5", "u16ac6", "u16ac7", "u16ac8", "u16ac9", "u16b50",
    "u16b51", "u16b52", "u16b53", "u16b54", "u16b55", "u16b56", "u16b57",
    "u16b58", "u16b59", "u1d7ce", "u1d7cf", "u1d7d0", "u1d7d1", "u1d7d2",
    "u1d7d3", "u1d7d4", "u1d7d5", "u1d7d6", "u1d7d7", "u1d7d8", "u1d7d9",
    "u1d7da", "u1d7db", "u1d7dc", "u1d7dd", "u1d7de", "u1d7df", "u1d7e0",
    "u1d7e1", "u1d7e2", "u1d7e3", "u1d7e4", "u1d7e5", "u1d7e6", "u1d7e7",
    "u1d7e8", "u1d7e9", "u1d7ea", "u1d7eb", "u1d7ec", "u1d7ed", "u1d7ee",
    "u1d7ef", "u1d7f0", "u1d7f1", "u1d7f2", "u1d7f3", "u1d7f4", "u1d7f5",
    "u1d7f6", "u1d7f7", "u1d7f8", "u1d7f9", "u1d7fa", "u1d7fb", "u1d7fc",
    "u1d7fd", "u1d7fe", "u1d7ff", "u1e140", "u1e141", "u1e142", "u1e143",
    "u1e144", "u1e145", "u1e146", "u1e147", "u1e148", "u1e149", "u1e2f0",
    "u1e2f1", "u1e2f2", "u1e2f3", "u1e2f4", "u1e2f5", "u1e2f6", "u1e2f7",
    "u1e2f8", "u1e2f9", "u1e950", "u1e951", "u1e952", "u1e953", "u1e954",
    "u1e955", "u1e956", "u1e957", "u1e958", "u1e959", "u1fbf0", "u1fbf1",
    "u1fbf2", "u1fbf3", "u1fbf4", "u1fbf5", "u1fbf6", "u1fbf7", "u1fbf8",
    "u1fbf9">>

\* The code point of the digit zero of each block.
DigitBlocks ==
  <<48, 1632, 1776, 1984, 2406, 2534, 2662, 2790, 2918, 3046, 3174, 3302,
    3430, 3558, 3664, 3792, 3872, 4160, 4240, 6112, 6160, 6470, 6608, 6784,
    6800, 6992, 7088, 7232, 7248, 42528, 43216, 43264, 43472, 43504, 43600,
    44016, 65296, 66720, 68912, 69734, 69872, 69942, 70096, 70384, 70736,
    70864, 71248, 71360, 71472, 71904, 72016, 72784, 73040, 73120, 92768,
    92864, 93008, 120782, 120792, 120802, 120812, 120822, 123200, 123632,
    125264, 130032>>

DigitSet == {DigitChars[i] : i \in 1..Len(DigitChars)}

IsDigit(c) == c \in DigitSet

DigitIndex(c) == CHOOSE i \in 1..Len(DigitChars) : DigitChars[i] = c

DigitVal(c) == (DigitIndex(c) - 1) % 10

\* [0-9] in a pattern
IsAsciiDigit(c) == c \in {"0", "1", "2", "3", "4", "5", "6", "7", "8", "9"}

\* The characters of code points 32..126.
AsciiChars ==
  <<" ", "!", "\"", "#", "$", "%", "&", "'", "(", ")", "*", "+", ",", "-",
    ".", "/", "0", "1", "2", "3", "4", "5", "6", "7", "8", "9", ":", ";",
    "<", "=", ">", "?", "@", "A", "B", "C", "D", "E", "F", "G", "H", "I",
    "J", "K", "L", "M", "N", "O", "P", "Q", "R", "S", "T", "U", "V", "W",
    "X", "Y", "Z", "[", "\\", "]", "^", "_", "u0060", "a", "b", "c", "d",
    "e", "f", "g", "h", "i", "j", "k", "l", "m", "n", "o", "p", "q", "r",
    "s", "t", "u", "v", "w", "x", "y", "z", "{", "|", "}", "~">>

AsciiSet == {AsciiChars[i] : i \in 1..Len(AsciiChars)}

\* The other characters of the alphabet with their code points.
OtherChars ==
  <<<<"u0000", 0>>, <<"u0001", 1>>, <<"u0002", 2>>, <<"u0003", 3>>,
    <<"u0004", 4>>, <<"u0005", 5>>, <<"u0006", 6>>, <<"u0007", 7>>,
    <<"u0008", 8>>, <<"u000b", 11>>, <<"u000e", 14>>, <<"u000f", 15>>,
    <<"u0010", 16>>, <<"u0011", 17>>, <<"u0012", 18>>, <<"u0013", 19>>,
    <<"u0014", 20>>, <<"u0015", 21>>, <<"u0016", 22>>, <<"u0017", 23>>,
    <<"u0018", 24>>, <<"u0019", 25>>, <<"u001a", 26>>, <<"u001b", 27>>,
    <<"u001c", 28>>, <<"u001d", 29>>, <<"u001e", 30>>, <<"u001f", 31>>,
    <<"u007f", 127>>, <<"u0080", 128>>, <<"u0081", 129>>, <<"u0082", 130>>,
    <<"u0083", 131>>, <<"u0084", 132>>, <<"u0085", 133>>, <<"u0086", 134>>,
    <<"u0087", 135>>, <<"u0088", 136>>, <<"u0089", 137>>, <<"u008a", 138>>,
    <<"u008b", 139>>, <<"u008c", 140>>, <<"u008d", 141>>, <<"u008e", 142>>,
    <<"u008f", 143>>, <<"u0090", 144>>, <<"u0091", 145>>, <<"u0092", 146>>,
    <<"u0093", 147>>, <<"u0094", 148>>, <<"u0095", 149>>, <<"u0096", 150>>,
    <<"u0097", 151>>, <<"u0098", 152>>, <<"u0099", 153>>, <<"u009a", 154>>,
    <<"u009b", 155>>, <<"u009c", 156>>, <<"u009d", 157>>, <<"u009e", 158>>,
    <<"u009f", 159>>, <<"u00a0", 160>>, <<"u00a1", 161>>, <<"u00a2", 162>>,
    <<"u00a3", 163>>, <<"u00a4", 164>>, <<"u00a5", 165>>, <<"u00a6", 166>>,
    <<"u00a7", 167>>, <<"u00a8", 168>>, <<"u00a9", 169>>, <<"u00aa", 170>>,
    <<"u00ab", 171>>, <<"u00ac", 172>>, <<"u00ad", 173>>, <<"u00ae", 174>>,
    <<"u00af", 175>>, <<"u00b0", 176>>, <<"u00b1", 177>>, <<"u00b2", 178>>,
    <<"u00b3", 179>>, <<"u00b4", 180>>, <<"u00b5", 181>>, <<"u00b6", 182>>,
    <<"u00b7", 183>>, <<"u00b8", 184>>, <<"u00b9", 185>>, <<"u00ba", 186>>,
    <<"u00bb", 187>>, <<"u00bc", 188>>, <<"u00bd", 189>>, <<"u00be", 190>>,
    <<"u00bf", 191>>, <<"u00c0", 192>>, <<"u00c1", 193>>, <<"u00c2", 194>>,
    <<"u00c3", 195>>, <<"u00c4", 196>>, <<"u00c5", 197>>, <<"u00c6", 198>>,
    <<"u00c7", 199>>, <<"u00c8", 200>>, <<"u00c9", 201>>, <<"u00ca", 202>>,
    <<"u00cb", 203>>, <<"u00cc", 204>>, <<"u00cd", 205>>, <<"u00ce", 206>>,
    <<"u00cf", 207>>, <<"u00d0", 208>>, <<"u00d1", 209>>, <<"u00d2", 210>>,
    <<"u00d3", 211>>, <<"u00d4", 212>>, <<"u00d5", 213>>, <<"u00d6", 214>>,
    <<"u00d7", 215>>, <<"u00d8", 216>>, <<"u00d9", 217>>, <<"u00da", 218>>,
    <<"u00db", 219>>, <<"u00dc", 220>>, <<"u00dd", 221>>, <<"u00de", 222>>,
    <<"u00df", 223>>, <<"u00e0", 224>>, <<"u00e1", 225>>, <<"u00e2", 226>>,
    <<"u00e3", 227>>, <<"u00e4", 228>>, <<"u00e5", 229>>, <<"u00e6", 230>>,
    <<"u00e7", 231>>, <<"u00e8", 232>>, <<"u00e9", 233>>, <<"u00ea", 234>>,
    <<"u00eb", 235>>, <<"u00ec", 236>>, <<"u00ed", 237>>, <<"u00ee", 238>>,
    <<"u00ef", 239>>, <<"u00f0", 240>>, <<"u00f1", 241>>, <<"u00f2", 242>>,
    <<"u00f3", 243>>, <<"u00f4", 244>>, <<"u00f5", 245>>, <<"u00f6", 246>>,
    <<"u00f7", 247>>, <<"u00f8", 248>>, <<"u00f9", 249>>, <<"u00fa", 250>>,
    <<"u00fb", 251>>, <<"u00fc", 252>>, <<"u00fd", 253>>, <<"u00fe", 254>>,
    <<"u00ff", 255>>, <<"u1680", 5760>>, <<"u2000", 8192>>,
    <<"u2001", 8193>>, <<"u2002", 8194>>, <<"u2003", 8195>>,
    <<"u2004", 8196>>, <<"u2005", 8197>>, <<"u2006", 8198>>,
    <<"u2007", 8199>>, <<"u2008", 8200>>, <<"u2009", 8201>>,
    <<"u200a", 8202>>, <<"u2028", 8232>>, <<"u2029", 8233>>,
    <<"u202f", 8239>>, <<"u205f", 8287>>, <<"u212a", 8490>>,
    <<"u3000", 12288>>>>

OtherSet == {OtherChars[i][1] : i \in 1..Len(OtherChars)}

\* Code point of a character of the alphabet (sorted() compares by it).
CharCode(c) ==
    CASE c = "\t" -> 9
      [] c = "\n" -> 10
      [] c = "\f" -> 12
      [] c = "\r" -> 13
      [] c \in AsciiSet ->
            31 + (CHOOSE i \in 1..Len(AsciiChars) : AsciiChars[i] = c)
      [] c \in OtherSet ->
            OtherChars[CHOOSE i \in 1..Len(OtherChars) : OtherChars[i][1] = c][2]
      [] c \notin AsciiSet /\ IsDigit(c) ->
            DigitBlocks[((DigitIndex(c) - 1) \div 10) + 1] + DigitVal(c)

Num2(n) == <<DigitChars[((n \div 10) % 10) + 1], DigitChars[(n % 10) + 1]>>

Num4(n) == <<DigitChars[((n \div 1000) % 10) + 1],
             DigitChars[((n \div 100) % 10) + 1]>> \o Num2(n)

DateName(y, m, d) == Num4(y) \o <<"-">> \o Num2(m) \o <<"-">> \o Num2(d)

Min(a, b) == IF a <= b THEN a ELSE b

\* Python's s[:n]
Prefix(s, n) == SubSeq(s, 1, Min(n, Len(s)))

\* Python's str < str: the first differing code point decides, a proper
\* prefix is smaller.
StrLess(a, b) ==
    LET n == Min(Len(a), Len(b))
        diff == {i \in 1..n : a[i] # b[i]}
    IN  IF diff = {}
        THEN Len(a) < Len(b)
        ELSE LET k == CHOOSE i \in diff : \A j \in diff : i <= j
             IN  CharCode(a[k]) < CharCode(b[k])

\* sorted(S) for a set of distinct strings
RECURSIVE SortedStrings(_)
SortedStrings(S) ==
    IF S = {} THEN <<>>
    ELSE LET m == CHOOSE x \in S : \A y \in S \ {x} : StrLess(x, y)
         IN  <<m>> \o SortedStrings(S \ {m})

\* Index of the first "_" of s, 0 when there is none.
FirstUnderscore(s) ==
    LET U == {i \in 1..Len(s) : s[i] = "_"}
    IN  IF U = {} THEN 0 ELSE CHOOSE i \in U : \A j \in U : i <= j

CountUnderscores(s) == Cardinality({i \in 1..Len(s) : s[i] = "_"})

(***************************************************************************)
(* utils.py: configuration                                                 *)
(***************************************************************************)
VALID_YEAR_MIN == 2022
VALID_YEAR_MAX == 2025

(***************************************************************************)
(* utils.py: FOLDER_PATTERN = re.compile(r"^\d{4}-\d{2}-\d{2}(_[hl])?$")   *)
(* matched with .match().  Without re.MULTILINE, "$" matches at the end of *)
(* the string and also just before a newline that ends the string.         *)
(***************************************************************************)
DollarMatchesAt(s, consumed) ==
    \/ consumed = Len(s)
    \/ consumed = Len(s) - 1 /\ s[Len(s)] = "\n"

DatePrefixMatches(s) ==
    /\ Len(s) >= 10
    /\ \A i \in {1, 2, 3, 4, 6, 7, 9, 10} : IsDigit(s[i])
    /\ s[5] = "-"
    /\ s[8] = "-"

FOLDER_PATTERN_match(s) ==
    /\ DatePrefixMatches(s)
    /\ \/ /\ Len(s) >= 12
          /\ s[11] = "_"
          /\ s[12] \in {"h", "l"}
          /\ DollarMatchesAt(s, 12)
       \/ DollarMatchesAt(s, 10)

is_valid_folder_name(folder_name) == FOLDER_PATTERN_match(folder_name)

(***************************************************************************)
(* utils.py: parse_folder_name.  "ERROR" stands for the ValueError of the  *)
(* two-target unpacking when split("_") yields more than two parts.        *)
(***************************************************************************)
parse_folder_name(folder_name) ==
    IF CountUnderscores(folder_name) = 0
    THEN [date_str |-> folder_name, quality |-> <<"u">>]
    ELSE IF CountUnderscores(folder_name) = 1
    THEN LET k == FirstUnderscore(folder_name)
         IN  [date_str |-> SubSeq(folder_name, 1, k - 1),
              quality  |-> SubSeq(folder_name, k + 1, Len(folder_name))]
    ELSE [date_str |-> <<"ERROR">>, quality |-> <<"ERROR">>]

extract_date(folder_name) ==
    LET k == FirstUnderscore(folder_name)
    IN  IF k = 0 THEN folder_name ELSE SubSeq(folder_name, 1, k - 1)

(***************************************************************************)
(* datetime.strptime(date_str, "%Y-%m-%d") as is_valid_date uses it.       *)
(* %Y is \d\d\d\d; %m is 1[0-2]|0[1-9]|[1-9]; %d is                        *)
(* 3[01]|[12]\d|0[1-9]|[1-9]| [1-9]; \d is any decimal digit, a range of   *)
(* digits is ASCII; the whole string must be consumed,                     *)
(* the year must be >= 1 and the day must exist in the month.              *)
(* The result is <<year, month, day>>, or <<>> for ValueError.             *)
(***************************************************************************)
IsLeap(y) == y % 4 = 0 /\ (y % 100 # 0 \/ y % 400 = 0)

DaysInMonth(y, m) ==
    IF m = 2 THEN (IF IsLeap(y) THEN 29 ELSE 28)
    ELSE IF m \in {4, 6, 9, 11} THEN 30 ELSE 31

\* Length of the %m match at position p that is followed by "-", 0 if none.
MonthMatchLen(s, p) ==
    IF /\ Len(s) >= p + 2
       /\ \/ s[p] = "1" /\ s[p + 1] \in {"0", "1", "2"}
          \/ s[p] = "0" /\ IsAsciiDigit(s[p + 1]) /\ s[p + 1] # "0"
       /\ s[p + 2] = "-"
    THEN 2
    ELSE IF /\ Len(s) >= p + 1
            /\ IsAsciiDigit(s[p]) /\ s[p] # "0"
            /\ s[p + 1] = "-"
    THEN 1
    ELSE 0

\* Length of the %d match at position p (first alternative that matches).
DayMatchLen(s, p) ==
    IF /\ Len(s) >= p + 1
       /\ \/ s[p] = "3" /\ s[p + 1] \in {"0", "1"}
          \/ s[p] \in {"1", "2"} /\ IsDigit(s[p + 1])
          \/ s[p] = "0" /\ IsAsciiDigit(s[p + 1]) /\ s[p + 1] # "0"
    THEN 2
    ELSE IF Len(s) >= p /\ IsAsciiDigit(s[p]) /\ s[p] # "0"
    THEN 1
    ELSE IF /\ Len(s) >= p + 1 /\ s[p] = " "
            /\ IsAsciiDigit(s[p + 1]) /\ s[p + 1] # "0"
    THEN 2
    ELSE 0

RECURSIVE DigitsValue(_)
DigitsValue(s) ==
    IF Len(s) = 0 THEN 0
    ELSE 10 * DigitsValue(SubSeq(s, 1, Len(s) - 1)) + DigitVal(s[Len(s)])

strptime_ymd(s) ==
    IF ~ (Len(s) >= 5 /\ (\A i \in 1..4 : IsDigit(s[i])) /\ s[5] = "-")
    THEN <<>>
    ELSE
    LET ml == MonthMatchLen(s, 6)
    IN  IF ml = 0 THEN <<>>
        ELSE
        LET dp == 6 + ml + 1
            dl == DayMatchLen(s, dp)
        IN  IF dl = 0 \/ dp + dl - 1 # Len(s) THEN <<>>
            ELSE
            LET y == DigitsValue(SubSeq(s, 1, 4))
                m == DigitsValue(SubSeq(s, 6, 6 + ml - 1))
                dtxt == SubSeq(s, dp, dp + dl - 1)
                d == DigitsValue(IF dtxt[1] = " " THEN Tail(dtxt) ELSE dtxt)
            IN  IF y < 1 \/ d > DaysInMonth(y, m) THEN <<>>
                ELSE <<y, m, d>>

\* Variant of is_valid_date that checks the year alone (as is_valid_year
\* does) and not that the date exists.
is_valid_date_YearOnly(date_str) ==
    /\ Len(date_str) >= 4
    /\ \A i \in 1..4 : IsDigit(date_str[i])
    /\ DigitsValue(SubSeq(date_str, 1, 4)) \in VALID_YEAR_MIN..VALID_YEAR_MAX

is_valid_date(date_str) ==
    LET d == strptime_ymd(date_str)
    IN  IF d = <<>> THEN FALSE
        ELSE VALID_YEAR_MIN <= d[1] /\ d[1] <= VALID_YEAR_MAX

(***************************************************************************)
(* utils.py: compute_folder_stats.  A folder's content is                  *)
(* [listable, children], a child is [isfile, size, stat_ok].               *)
(***************************************************************************)
RECURSIVE FolderStatsLoop(_, _, _)
\* Variant of FolderStatsLoop that gives up at the first file whose size
\* cannot be read.
FolderStatsLoop_StopsOnError(children, file_count, total_size) ==
    IF children = <<>> THEN <<file_count, total_size>>
    ELSE LET f == Head(children)
         IN  IF f.isfile
             THEN IF f.stat_ok
                  THEN FolderStatsLoop(Tail(children), file_count + 1,
                                       total_size + f.size)
                  ELSE <<file_count, total_size>>
             ELSE FolderStatsLoop(Tail(children), file_count, total_size)

FolderStatsLoop(children, file_count, total_size) ==
    IF children = <<>> THEN <<file_count, total_size>>
    ELSE LET f == Head(children)
         IN  IF f.isfile
             THEN FolderStatsLoop(Tail(children), file_count + 1,
                      IF f.stat_ok THEN total_size + f.size ELSE total_size)
             ELSE FolderStatsLoop(Tail(children), file_count, total_size)

compute_folder_stats(content) ==
    IF ~ content.listable THEN <<0, 0>>
    ELSE FolderStatsLoop(content.children, 0, 0)

(***************************************************************************)
(* utils.py: list_candidate_folders                                        *)
(***************************************************************************)
list_candidate_folders(entries) ==
    SortedStrings({d \in DOMAIN entries :
                      is_valid_folder_name(d) /\ entries[d].isdir})

(***************************************************************************)
(* The inputs of the folder scan: names and folder contents.               *)
(***************************************************************************)
BaseName == DateName(2024, 5, 1)

DateTriples ==
    { <<2024, 5, 1>>, <<2021, 5, 1>>, <<2026, 1, 1>>, <<2022, 1, 1>>,
      <<2025, 12, 31>>, <<2023, 13, 1>>, <<2024, 2, 29>>, <<2023, 2, 29>>,
      <<2024, 4, 31>>, <<2024, 0, 10>>, <<2024, 5, 0>>, <<0, 1, 1>> }

NamePool ==
    { DateName(t[1], t[2], t[3]) : t \in DateTriples }
    \cup { BaseName \o sfx :
             sfx \in { <<"_", "h">>, <<"_", "l">>, <<"_", "x">>,
                       <<"_", "h", "l">>, <<"_">>, <<"x">>, <<"\n">>,
                       <<"_", "h", "\n">>, <<"\n", "\n">>, <<"_", "h", "_", "l">> } }
    \cup { DateName(2021, 5, 1) \o <<"_", "l">>,
           DateName(2023, 2, 29) \o <<"_", "h">>,
           <<"x">> \o BaseName,
           Num4(2024) \o Num2(5) \o Num2(1),
           Num4(2024) \o <<"-", "5", "-">> \o Num2(1),
           <<"2", "0", "2", "a">> \o <<"-">> \o Num2(5) \o <<"-">> \o Num2(1),
           \* digits that are not ASCII: day 11 with an Arabic-Indic digit
           \* one, and a year in fullwidth digits
           Num4(2024) \o <<"-">> \o Num2(5) \o <<"-", "1", "u0661", "_", "h">>,
           <<"uff12", "uff10", "uff12", "uff11", "-">> \o Num2(5)
               \o <<"-">> \o Num2(1) }

NoContent == [listable |-> FALSE, children |-> <<>>]

MixedContent ==
    [listable |-> TRUE,
     children |-> << [isfile |-> TRUE,  size |-> 3, stat_ok |-> TRUE],
                     [isfile |-> TRUE,  size |-> 4, stat_ok |-> FALSE],
                     [isfile |-> FALSE, size |-> 0, stat_ok |-> TRUE] >>]

EntryKinds ==
    { [isdir |-> FALSE, content |-> NoContent],
      [isdir |-> TRUE,  content |-> NoContent],
      [isdir |-> TRUE,  content |-> MixedContent] }

RECURSIVE NameSetsUpTo(_)
NameSetsUpTo(k) ==
    IF k = 0 THEN {{}}
    ELSE LET P == NameSetsUpTo(k - 1)
         IN  P \cup { s \cup {x} : s \in P, x \in NamePool }

\* The variables of the scripts that are not running.
AggIdle ==
    /\ in_csv = [exists |-> FALSE, rows |-> <<>>]
    /\ in_has_date = FALSE
    /\ out_csv = [exists |-> FALSE, rows |-> <<>>]
    /\ out_writes = 0
    /\ agg_pc = "idle"
    /\ df = <<>>
    /\ daily = <<>>

PoolIdle ==
    /\ tree = {}
    /\ calendar = [restrict |-> FALSE, dates |-> {}]
    /\ workers = 0
    /\ all_files = <<>>
    /\ tasks = <<>>
    /\ running = <<>>
    /\ outq = <<>>
    /\ rows = <<>>
    /\ errors = 0
    /\ pool_pc = "idle"
    /\ aq_output = [exists |-> FALSE, rows |-> <<>>]
    /\ aq_writes = 0

ScanIdle ==
    /\ root_entries = << >>
    /\ modality = "none"
    /\ scan_pc = "idle"
    /\ candidates = <<>>
    /\ scan_i = 1
    /\ valid_records = <<>>
    /\ invalid_records = <<>>

NoFile == [exists |-> FALSE, rows |-> <<>>]

NoTable == [exists |-> FALSE, cols |-> {}, rows |-> <<>>]

NoRoot == [exists |-> FALSE, entries |-> << >>]

NoCorr == [exists |-> FALSE, cols |-> {}]

FlatIdle ==
    /\ logs_root = << >>
    /\ max_lines = [given |-> FALSE, n |-> 0]
    /\ log_files = <<>>
    /\ lf_i = 1
    /\ line_i = 1
    /\ total_lines = 0
    /\ parsed = 0
    /\ fl_errors = 0
    /\ warnings = 0
    /\ flat_out = NoFile
    /\ flat_hdr = {}
    /\ flat_runs = 0
    /\ flat_first = [out |-> NoFile, hdr |-> {}]
    /\ flat_pc = "idle"

JoinIdle ==
    /\ join_in = [a |-> NoTable, b |-> NoTable, c |-> NoTable]
    /\ joined = [cols |-> {}, rows |-> <<>>]
    /\ join_out = NoTable
    /\ corr_out = NoCorr
    /\ join_err = "none"
    /\ join_pc = "idle"

ExIdle ==
    /\ ex_in = NoRoot
    /\ ex_i = 1
    /\ ex_rows = <<>>
    /\ ex_out = NoFile
    /\ ex_pc = "idle"

DsIdle ==
    /\ ds_roots = [img |-> NoRoot, snd |-> NoRoot]
    /\ ds_scans = [img_valid |-> <<>>, img_invalid |-> <<>>,
                   snd_valid |-> <<>>, snd_invalid |-> <<>>]
    /\ ds_out = [summary |-> NoFile, invalid |-> NoFile]
    /\ ds_pc = "idle"

NoPairSets ==
    [img |-> {}, snd |-> {}, paired |-> <<>>, img_only |-> <<>>, snd_only |-> <<>>]

NoReport ==
    [missing_img |-> <<>>, missing_snd |-> <<>>,
     unexpected_img |-> <<>>, unexpected_snd |-> <<>>]

LateIdle ==
    /\ st_content = [listable |-> FALSE, children |-> <<>>]
    /\ st_result = <<0, 0>>
    /\ st_pc = "idle"
    /\ val_report = NoReport
    /\ val_pc = "idle"
    /\ pair_sets = NoPairSets
    /\ pair_out = NoFile
    /\ pair_pc = "idle"

RestIdle == FlatIdle /\ JoinIdle /\ ExIdle /\ DsIdle /\ LateIdle

(***************************************************************************)
(* utils.py: scan_modality_root, one action per step of the function.      *)
(***************************************************************************)
ValidRecord(date_str, quality, stats) ==
    [date |-> date_str, modality |-> modality, quality |-> quality,
     file_count |-> stats[1], total_size |-> stats[2]]

InvalidRecord(folder, date_str, quality, stats) ==
    [folder_name |-> folder, parsed_date |-> date_str, modality |-> modality,
     quality |-> quality, file_count |-> stats[1], total_size |-> stats[2],
     reason |-> "invalid_year_or_bad_date"]

InitScan ==
    /\ prog = "scan_dataset"
    /\ pandas = "cell by cell"
    /\ \E S \in NameSetsUpTo(MaxEntries) : root_entries \in [S -> EntryKinds]
    /\ modality \in {"image", "audio"}
    /\ scan_pc = "start"
    /\ candidates = <<>>
    /\ scan_i = 1
    /\ valid_records = <<>>
    /\ invalid_records = <<>>
    /\ AggIdle
    /\ PoolIdle
    /\ RestIdle

\* utils.py:172-175
ScanList ==
    /\ prog = "scan_dataset"
    /\ scan_pc = "start"
    /\ candidates' = list_candidate_folders(root_entries)
    /\ valid_records' = <<>>
    /\ invalid_records' = <<>>
    /\ scan_i' = 1
    /\ scan_pc' = "loop"
    /\ UNCHANGED <<prog, pandas, root_entries, modality, aggVars, poolVars, restVars>>

\* utils.py:177-200, one iteration of the for loop
ScanFolder ==
    /\ prog = "scan_dataset"
    /\ scan_pc = "loop"
    /\ scan_i <= Len(candidates)
    /\ LET folder == candidates[scan_i]
           pfn    == parse_folder_name(folder)
           stats  == compute_folder_stats(root_entries[folder].content)
       IN  IF is_valid_date(pfn.date_str)
           THEN /\ valid_records' = Append(valid_records,
                        ValidRecord(pfn.date_str, pfn.quality, stats))
                /\ UNCHANGED invalid_records
           ELSE /\ invalid_records' = Append(invalid_records,
                        InvalidRecord(folder, pfn.date_str, pfn.quality, stats))
                /\ UNCHANGED valid_records
    /\ scan_i' = scan_i + 1
    /\ UNCHANGED <<prog, pandas, root_entries, modality, scan_pc, candidates, aggVars, poolVars, restVars>>

\* utils.py:202
ScanReturn ==
    /\ prog = "scan_dataset"
    /\ scan_pc = "loop"
    /\ scan_i > Len(candidates)
    /\ scan_pc' = "done"
    /\ UNCHANGED <<prog, pandas, root_entries, modality, candidates, scan_i,
                   valid_records, invalid_records, aggVars, poolVars, restVars>>

NextScan == ScanList \/ ScanFolder \/ ScanReturn

SpecScan == InitScan /\ [][NextScan]_vars


(***************************************************************************)
(* Properties of the folder scan                                           *)
(***************************************************************************)
\* The documented naming pattern: exactly YYYY-MM-DD, YYYY-MM-DD_h or
\* YYYY-MM-DD_l with the digits 0..9, nothing before and nothing after.
StrictFolderName(s) ==
    /\ Len(s) \in {10, 12}
    /\ DatePrefixMatches(s)
    /\ \A i \in {1, 2, 3, 4, 6, 7, 9, 10} : IsAsciiDigit(s[i])
    /\ Len(s) = 12 => (s[11] = "_" /\ s[12] \in {"h", "l"})

\* The folder a valid record was made from.
FolderOfValid(rec) ==
    IF rec.quality = <<"u">> THEN rec.date
    ELSE rec.date \o <<"_">> \o rec.quality

ValidFolders == {FolderOfValid(valid_records[i]) : i \in 1..Len(valid_records)}

InvalidFolders ==
    {invalid_records[i].folder_name : i \in 1..Len(invalid_records)}

RecordsOf(n) ==
    Cardinality({i \in 1..Len(valid_records) : FolderOfValid(valid_records[i]) = n})
    + Cardinality({i \in 1..Len(invalid_records) : invalid_records[i].folder_name = n})

\* The calendar check stated on the digits of a strict name.
RealDateInRange(s) ==
    LET y == DigitsValue(SubSeq(s, 1, 4))
        m == DigitsValue(SubSeq(s, 6, 7))
        d == DigitsValue(SubSeq(s, 9, 10))
    IN  /\ m \in 1..12
        /\ d >= 1
        /\ d <= DaysInMonth(y, m)
        /\ y \in VALID_YEAR_MIN..VALID_YEAR_MAX

\* C1 (as claimed): when the scan returns, every directory whose name matches
\* the YYYY-MM-DD[_h|_l] pattern has exactly one record, in exactly one of
\* the two lists, every other name has none, the lists share no folder and
\* every invalid record carries a reason code.
C1_OneRecordPerPatternFolder ==
    scan_pc = "done" =>
        /\ \A n \in DOMAIN root_entries :
              RecordsOf(n) =
                  IF StrictFolderName(n) /\ root_entries[n].isdir THEN 1 ELSE 0
        /\ ValidFolders \cup InvalidFolders \subseteq DOMAIN root_entries
        /\ ValidFolders \cap InvalidFolders = {}
        /\ \A i \in 1..Len(invalid_records) :
              invalid_records[i].reason = "invalid_year_or_bad_date"

\* What the scan does guarantee: the same partition, with the names that
\* FOLDER_PATTERN accepts in place of the documented pattern.
ScanPartitionsCandidates ==
    scan_pc = "done" =>
        /\ \A n \in DOMAIN root_entries :
              RecordsOf(n) =
                  IF is_valid_folder_name(n) /\ root_entries[n].isdir THEN 1 ELSE 0
        /\ ValidFolders \cap InvalidFolders = {}

\* C2: a directory with a pattern-matching name is in the valid list exactly
\* when its date portion is a real calendar date with a year in
\* [VALID_YEAR_MIN, VALID_YEAR_MAX], and in the invalid list otherwise.
C2_ValidIffRealDateInRange ==
    scan_pc = "done" =>
        \A n \in DOMAIN root_entries :
            (StrictFolderName(n) /\ root_entries[n].isdir) =>
                /\ (n \in ValidFolders) <=> RealDateInRange(n)
                /\ (n \in InvalidFolders) <=> ~ RealDateInRange(n)

\* C2 witness: a finished scan that put 2024-05-01 in the valid list and
\* both 2021-05-01 or 2023-13-01 in the invalid list.
C2_Witness ==
    /\ scan_pc = "done"
    /\ DateName(2024, 5, 1) \in ValidFolders
    /\ InvalidFolders \cap {DateName(2021, 5, 1), DateName(2023, 13, 1)} # {}

\* C3 (as claimed): the names list_candidate_folders keeps, by
\* is_valid_folder_name, are exactly the directories named YYYY-MM-DD,
\* YYYY-MM-DD_h or YYYY-MM-DD_l.
C3_AcceptsExactlyThePattern ==
    scan_pc # "start" =>
        \A n \in DOMAIN root_entries :
            /\ is_valid_folder_name(n) <=> StrictFolderName(n)
            /\ root_entries[n].isdir =>
                  ((\E i \in 1..Len(candidates) : candidates[i] = n)
                      <=> StrictFolderName(n))


(***************************************************************************)
(* The daily aggregators: audio_quality_daily.py, image_quality_daily.py   *)
(* and logs_daily_summary.py.                                              *)
(*                                                                         *)
(* A CSV record is [date, path, value]: date is the text of the date cell, *)
(* path the cell of the column the script counts by name (relative_path,   *)
(* file_name), value the cell of a metric column (rms_dbfs,                *)
(* blur_laplacian_var, probs).  An empty cell is <<>>, a filled numeric or *)
(* path cell is a one-element sequence.  A parsed date is [day, tod]: the  *)
(* day as the number YYYYMMDD and the second of the day; NaT is the        *)
(* missing date.  A mean is <<numerator, denominator>> in lowest terms,    *)
(* and <<>> (NaN) when no value is present.                                *)
(***************************************************************************)
NaT == [day |-> 0, tod |-> 0]

Text(s1, s2) == s1 \o <<" ">> \o s2

TimeText(h, m, s) == Num2(h) \o <<":">> \o Num2(m) \o <<":">> \o Num2(s)

(***************************************************************************)
(* pandas' parsing of a date column, pd.to_datetime and                    *)
(* read_csv(parse_dates=...).  The texts modelled are the empty cell and   *)
(* the six forms of DATE_FORMATS written with the digits 0..9; every text  *)
(* the model's tables hold that has none of these forms is one pandas      *)
(* does not parse either.  Texts of further forms that pandas reads (month *)
(* names, day-first orders, fractions of a second, time zones, unpadded    *)
(* numbers) are not among the model's inputs.                              *)
(* A column is parsed as a whole, and how depends on the pandas installed: *)
(* before 2.0 every cell is parsed on its own, from 2.0 on the format is   *)
(* guessed from the first cell that is not empty and each cell must have   *)
(* exactly that format; when no format can be guessed the cells are parsed *)
(* one by one.  Timestamps are nanoseconds in 64 bits, so the dates        *)
(* outside 1677-09-21 00:12:44 .. 2262-04-11 23:47:16 do not parse.        *)
(***************************************************************************)
DATE_FORMATS ==
    {"%Y-%m-%d", "%Y-%m-%d %H:%M:%S", "%Y-%m-%dT%H:%M:%S", "%Y-%m-%d %H:%M",
     "%Y/%m/%d", "%Y%m%d"}

\* Value of one of the digits 0..9.
AsciiDigitVal(c) ==
    CASE c = "0" -> 0 [] c = "1" -> 1 [] c = "2" -> 2 [] c = "3" -> 3
      [] c = "4" -> 4 [] c = "5" -> 5 [] c = "6" -> 6 [] c = "7" -> 7
      [] c = "8" -> 8 [] c = "9" -> 9

RECURSIVE AsciiDigitsValue(_)
AsciiDigitsValue(s) ==
    IF Len(s) = 0 THEN 0
    ELSE 10 * AsciiDigitsValue(SubSeq(s, 1, Len(s) - 1)) + AsciiDigitVal(s[Len(s)])

\* The n digits 0..9 of s from position p as a number, -1 when they are
\* not all there.
AsciiNum(s, p, n) ==
    IF Len(s) >= p + n - 1 /\ (\A i \in p..(p + n - 1) : IsAsciiDigit(s[i]))
    THEN AsciiDigitsValue(SubSeq(s, p, p + n - 1))
    ELSE -1

\* YYYYMMDD of a day of the calendar, 0 when there is no such day.
CalendarDay(y, m, d) ==
    IF y >= 1 /\ m \in 1..12 /\ d >= 1 /\ d <= DaysInMonth(y, m)
    THEN 10000 * y + 100 * m + d
    ELSE 0

HourMinSec(h, m, sec) ==
    IF h \in 0..23 /\ m \in 0..59 /\ sec \in 0..59
    THEN 3600 * h + 60 * m + sec
    ELSE -1

\* "HH:MM:SS" or "HH:MM" -> second of the day, -1 when the text is no time.
ParseTime(s) ==
    IF /\ Len(s) \in {5, 8}
       /\ s[3] = ":"
       /\ Len(s) = 8 => s[6] = ":"
    THEN HourMinSec(AsciiNum(s, 1, 2), AsciiNum(s, 4, 2),
                    IF Len(s) = 8 THEN AsciiNum(s, 7, 2) ELSE 0)
    ELSE -1

\* The timestamp of a day and a second of the day, NaT when one is missing.
Stamp(day, tod) ==
    IF day = 0 \/ tod < 0 THEN NaT ELSE [day |-> day, tod |-> tod]

\* The day a text starts with: year, month and day of two digits, with the
\* separator sep between them ("" for none); 0 when it starts with no day.
LeadingDay(s, sep) ==
    IF sep = ""
    THEN CalendarDay(AsciiNum(s, 1, 4), AsciiNum(s, 5, 2), AsciiNum(s, 7, 2))
    ELSE IF Len(s) >= 10 /\ s[5] = sep /\ s[8] = sep
    THEN CalendarDay(AsciiNum(s, 1, 4), AsciiNum(s, 6, 2), AsciiNum(s, 9, 2))
    ELSE 0

\* The time that follows the n characters of the day: none (the text ends
\* there) when tlen = 0, else the separator tsep and a time of tlen
\* characters; -1 when the text goes on otherwise.
TrailingTime(s, n, tsep, tlen) ==
    IF tlen = 0
    THEN (IF Len(s) = n THEN 0 ELSE -1)
    ELSE IF Len(s) = n + 1 + tlen /\ s[n + 1] = tsep
    THEN ParseTime(SubSeq(s, n + 2, Len(s)))
    ELSE -1

\* The text s read with the format f: the timestamp, NaT when s does not
\* have exactly that format or names no day of the calendar.
strptime_cell(s, f) ==
    CASE f = "%Y-%m-%d" ->
            Stamp(LeadingDay(s, "-"), TrailingTime(s, 10, " ", 0))
      [] f = "%Y-%m-%d %H:%M:%S" ->
            Stamp(LeadingDay(s, "-"), TrailingTime(s, 10, " ", 8))
      [] f = "%Y-%m-%dT%H:%M:%S" ->
            Stamp(LeadingDay(s, "-"), TrailingTime(s, 10, "T", 8))
      [] f = "%Y-%m-%d %H:%M" ->
            Stamp(LeadingDay(s, "-"), TrailingTime(s, 10, " ", 5))
      [] f = "%Y/%m/%d" ->
            Stamp(LeadingDay(s, "/"), TrailingTime(s, 10, " ", 0))
      [] f = "%Y%m%d" ->
            Stamp(LeadingDay(s, ""), TrailingTime(s, 8, " ", 0))
      [] OTHER -> NaT

\* An element of the set F, or the default when it has none.
AnyOf(F, default) == IF F = {} THEN default ELSE CHOOSE x \in F : TRUE

\* The format pandas guesses for the text s, "none" when it guesses none.
guess_datetime_format(s) ==
    AnyOf({f \in DATE_FORMATS : strptime_cell(s, f) # NaT}, "none")

\* A timestamp that does not fit 64 bits of nanoseconds does not parse.
InTimestampBounds(d) ==
    /\ d.day >= 16770921 /\ d.day <= 22620411
    /\ d.day = 16770921 => d.tod >= 764
    /\ d.day = 22620411 => d.tod <= 85636

Bounded(d) == IF InTimestampBounds(d) THEN d ELSE NaT

\* Index of the first cell that is not empty, 0 when all are.
FirstNotNull(cells) ==
    AnyOf({i \in 1..Len(cells) :
              cells[i] # <<>> /\ \A j \in 1..(i - 1) : cells[j] = <<>>}, 0)

\* The one format of the column, "none" when each cell is read on its own.
ColumnFormat(cells, parser) ==
    IF parser = "format of the first cell" /\ (\E i \in 1..Len(cells) : cells[i] # <<>>)
    THEN guess_datetime_format(cells[FirstNotNull(cells)])
    ELSE "none"

\* One cell of a column whose format is fmt.
ParseWith(s, fmt) ==
    Bounded(strptime_cell(s, IF fmt = "none" THEN guess_datetime_format(s) ELSE fmt))

ParseColumn(cells, fmt) == [i \in 1..Len(cells) |-> ParseWith(cells[i], fmt)]

\* pd.to_datetime(column, errors="coerce"): the timestamps of a column of
\* texts, NaT for the empty cells and for the cells that do not parse.
to_datetime(cells, parser) == ParseColumn(cells, ColumnFormat(cells, parser))

\* pd.read_csv without parse_dates infers the type of every column: a
\* column whose cells that are not empty all hold an integer (an optional
\* sign and up to 15 digits, the integers int64 and float64 both hold
\* exactly) is a column of numbers, any other column a column of texts.
AllAsciiDigits(d) ==
    Len(d) \in 1..15 /\ \A i \in 1..Len(d) : IsAsciiDigit(d[i])

Unsigned(s) == IF s # <<>> /\ s[1] \in {"+", "-"} THEN Tail(s) ELSE s

IsIntegerText(s) == AllAsciiDigits(Unsigned(s))

InfersNumbers(cells) ==
    \A i \in 1..Len(cells) : cells[i] = <<>> \/ IsIntegerText(cells[i])

\* A timestamp with its nanoseconds; the field ns is there when they are
\* not 0.
WithNanos(day, tod, ns) ==
    IF ns = 0 THEN [day |-> day, tod |-> tod]
    ELSE [day |-> day, tod |-> tod, ns |-> ns]

Nanos(d) == IF "ns" \in DOMAIN d THEN d.ns ELSE 0

\* The day k days after 1970-01-01 (before it when k < 0), for the twelve
\* days either side that 15 digits of nanoseconds reach.
EpochDay(k) == IF k >= 0 THEN 19700101 + k ELSE 19691232 + k

\* The timestamp secs seconds and ns nanoseconds after 1970-01-01 00:00:00.
EpochTime(secs, ns) == WithNanos(EpochDay(secs \div 86400), secs % 86400, ns)

\* The timestamp of a number of nanoseconds given as its sign, its digits
\* before the last nine (hi, seconds) and its last nine digits (lo).
EpochNanos(negative, hi, lo) ==
    IF ~ negative THEN EpochTime(hi, lo)
    ELSE IF lo = 0 THEN EpochTime(- hi, 0)
    ELSE EpochTime(- hi - 1, 1000000000 - lo)

HighDigits(d) ==
    IF Len(d) > 9 THEN AsciiDigitsValue(SubSeq(d, 1, Len(d) - 9)) ELSE 0

LowDigits(d) ==
    AsciiDigitsValue(SubSeq(d, IF Len(d) > 9 THEN Len(d) - 8 ELSE 1, Len(d)))

\* pd.to_datetime of a number: so many nanoseconds since 1970-01-01.
to_datetime_number(s) ==
    EpochNanos(s[1] = "-", HighDigits(Unsigned(s)), LowDigits(Unsigned(s)))

NumberColumn(cells) ==
    [i \in 1..Len(cells) |->
        IF cells[i] = <<>> THEN NaT ELSE to_datetime_number(cells[i])]

\* pd.to_datetime(errors="coerce") of a column pd.read_csv has read without
\* parse_dates (logs_daily_summary.py:63-69, daily_join.py:32-36,
\* join_audio_quality_and_sensor_daily.py:24-33).
read_csv_to_datetime(cells, parser) ==
    IF InfersNumbers(cells) THEN NumberColumn(cells)
    ELSE to_datetime(cells, parser)

\* A cell that holds text and does not parse: with it the column that
\* read_csv(parse_dates=...) returns stays text.
HasUnparsed(cells, parser) ==
    \E i \in 1..Len(cells) :
        cells[i] # <<>> /\ to_datetime(cells, parser)[i] = NaT

\* Series.dt.normalize(): midnight of the same day; NaT stays NaT.
Normalize(d) == [day |-> d.day, tod |-> 0]

\* The date column as read_csv(parse_dates=["date"]) returns it: timestamps
\* when every cell that is not empty parses, and else the texts as they are
\* ([text |-> s]); an empty cell is missing (NaT) in both.
read_csv_dates(cells, parser) ==
    IF HasUnparsed(cells, parser)
    THEN [i \in 1..Len(cells) |->
             IF cells[i] = <<>> THEN NaT ELSE [text |-> cells[i]]]
    ELSE to_datetime(cells, parser)

IsTextKey(k) == "text" \in DOMAIN k

\* Series.dt of a column that holds text raises AttributeError.
DtAccessorFails(col) == \E i \in 1..Len(col) : IsTextKey(col[i])

\* The date column each script groups by: audio_quality_daily.py:42-48
\* (parse_dates, then .dt.normalize()), image_quality_daily.py:40-43
\* (parse_dates), logs_daily_summary.py:63-69 (read_csv, then to_datetime
\* with errors="coerce").
DateColumn(script, recs, parser) ==
    LET cells == [i \in 1..Len(recs) |-> recs[i].date]
    IN  IF script = "logs_daily_summary"
        THEN read_csv_to_datetime(cells, parser)
        ELSE read_csv_dates(cells, parser)

\* The frame each script groups: the date column parsed (and, in
\* audio_quality_daily, normalized), the other cells as read.
FrameOf(script, recs, col) ==
    [i \in 1..Len(recs) |->
        [date  |-> IF script = "audio_quality_daily"
                   THEN Normalize(col[i])
                   ELSE col[i],
         path  |-> recs[i].path,
         value |-> recs[i].value]]

LoadFrame(script, recs, parser) ==
    FrameOf(script, recs, DateColumn(script, recs, parser))

\* Order of the group keys: timestamps by time, texts as strings.
DateLess(a, b) ==
    IF IsTextKey(a) /\ IsTextKey(b)
    THEN StrLess(a.text, b.text)
    ELSE \/ a.day < b.day
         \/ a.day = b.day /\ a.tod < b.tod
         \/ a.day = b.day /\ a.tod = b.tod /\ Nanos(a) < Nanos(b)

\* Variant of GroupKeys for groupby(sort=False) with no sort_values: the
\* distinct keys in the order of their first record.
GroupKeysFirstSeen(frame) ==
    LET first == {i \in 1..Len(frame) :
                     /\ frame[i].date # NaT
                     /\ \A j \in 1..(i - 1) : frame[j].date # frame[i].date}
        Nth(n) == CHOOSE i \in first : Cardinality({j \in first : j < i}) = n - 1
    IN  [n \in 1..Cardinality(first) |-> frame[Nth(n)].date]

\* groupby("date"): the distinct keys, NaT dropped (dropna=True), in
\* ascending order (sort=True; audio and image also sort_values("date")).
RECURSIVE SortedDates(_)
SortedDates(S) ==
    IF S = {} THEN <<>>
    ELSE LET m == CHOOSE x \in S : \A y \in S \ {x} : DateLess(x, y)
         IN  <<m>> \o SortedDates(S \ {m})

GroupKeys(frame) ==
    SortedDates({frame[i].date : i \in 1..Len(frame)} \ {NaT})

RECURSIVE GCD(_, _)
GCD(a, b) == IF b = 0 THEN a ELSE GCD(b, a % b)

\* Variant of MeanOf that divides in integers.
MeanOfFloorDiv(sum, count) ==
    IF count = 0 THEN <<>> ELSE <<sum \div count, 1>>

\* sum / count in lowest terms; NaN (<<>>) when count = 0
MeanOf(sum, count) ==
    IF count = 0 THEN <<>>
    ELSE LET g == GCD(sum, count)
         IN  IF g = 0 THEN <<0, 1>> ELSE <<sum \div g, count \div g>>

\* The column whose non-null cells the row count counts:
\* n_audio=("relative_path","count"), n_images=("file_name","count"),
\* log_n_events=("probs","count").
CountedCell(script, rec) ==
    IF script = "logs_daily_summary" THEN rec.value ELSE rec.path

\* One pass over the frame for the group of key k: "count" counts the
\* non-null cells of its column, "mean" adds and counts the non-null values.
RECURSIVE GroupFold(_, _, _, _)
GroupFold(script, frame, k, acc) ==
    IF frame = <<>> THEN acc
    ELSE LET r == Head(frame)
             hit == r.date = k
             acc2 ==
                 IF ~ hit THEN acc
                 ELSE [n   |-> acc.n + (IF CountedCell(script, r) # <<>> THEN 1 ELSE 0),
                       sum |-> acc.sum + (IF r.value # <<>> THEN r.value[1] ELSE 0),
                       cnt |-> acc.cnt + (IF r.value # <<>> THEN 1 ELSE 0)]
         IN  GroupFold(script, Tail(frame), k, acc2)

DailyRow(script, frame, k) ==
    LET acc == GroupFold(script, frame, k, [n |-> 0, sum |-> 0, cnt |-> 0])
    IN  [date |-> k, n |-> acc.n, mean |-> MeanOf(acc.sum, acc.cnt)]

DailyAggregate(script, frame) ==
    LET keys == GroupKeys(frame)
    IN  [i \in 1..Len(keys) |-> DailyRow(script, frame, keys[i])]

RECURSIVE SumN(_)
SumN(d) == IF d = <<>> THEN 0 ELSE Head(d).n + SumN(Tail(d))

\* Variant of IntegrityCheck with the assertion left out.
IntegrityCheckSkipped(d, frame) == TRUE

\* assert daily["n_..."].sum() == df.shape[0]
IntegrityCheck(d, frame) == SumN(d) = Len(frame)

(***************************************************************************)
(* Inputs of the aggregators: tables of one to MaxRows records (a file     *)
(* with a header and no record is not among them).                         *)
(***************************************************************************)
AggScripts == {"audio_quality_daily", "image_quality_daily", "logs_daily_summary"}

D1 == DateName(2024, 6, 1)
D2 == DateName(2024, 6, 2)
SomePath == << <<"p">> >>

\* 2024-06-01 and 2024-06-02 written without separators.
Compact1 == <<"2", "0", "2", "4", "0", "6", "0", "1">>
Compact2 == <<"2", "0", "2", "4", "0", "6", "0", "2">>

CsvRec(d, p, v) == [date |-> d, path |-> p, value |-> v]

RowPool(script) ==
    { CsvRec(D1, SomePath, <<1>>), CsvRec(D1, SomePath, <<2>>),
      CsvRec(D1, SomePath, <<3>>), CsvRec(D2, SomePath, <<3>>),
      CsvRec(D1, SomePath, <<>>),  CsvRec(<<>>, SomePath, <<1>>),
      CsvRec(D2, <<>>, <<2>>), CsvRec(<<"x">>, SomePath, <<1>>) }
    \cup (IF script = "audio_quality_daily"
          THEN {CsvRec(Text(D1, TimeText(10, 0, 0)), SomePath, <<2>>)}
          ELSE {})
    \cup (IF script = "logs_daily_summary"
          THEN {CsvRec(Compact1, SomePath, <<5>>), CsvRec(Compact2, SomePath, <<1>>)}
          ELSE {})

RECURSIVE TablesUpTo(_, _)
TablesUpTo(script, k) ==
    IF k = 0 THEN {<<>>}
    ELSE LET T == TablesUpTo(script, k - 1)
         IN  T \cup {Append(t, r) : t \in T, r \in RowPool(script)}

OldOutput == << [date |-> [day |-> 20230101, tod |-> 0], n |-> 9, mean |-> <<9, 1>>] >>

InitAgg ==
    /\ prog \in AggScripts
    /\ pandas \in PandasParsers
    /\ \/ /\ in_csv \in {[exists |-> FALSE, rows |-> <<>>]}
                        \cup {[exists |-> TRUE, rows |-> t] :
                                 t \in TablesUpTo(prog, MaxRows) \ {<<>>}}
          /\ in_has_date = in_csv.exists
       \/ /\ in_csv \in {[exists |-> TRUE, rows |-> t] : t \in TablesUpTo(prog, 1) \ {<<>>}}
          /\ in_has_date = FALSE
    /\ out_csv \in {[exists |-> FALSE, rows |-> <<>>],
                    [exists |-> TRUE, rows |-> OldOutput]}
    /\ out_writes = 0
    /\ agg_pc = "start"
    /\ df = <<>>
    /\ daily = <<>>
    /\ ScanIdle
    /\ PoolIdle
    /\ RestIdle

\* audio_quality_daily.py:38-48, image_quality_daily.py:36-43,
\* logs_daily_summary.py:59-81.  Without a date column read_csv with
\* parse_dates=["date"] raises, and logs_daily_summary raises ValueError;
\* audio_quality_daily raises AttributeError at line 48 when the date column
\* was left as text.
AggLoad ==
    /\ prog \in AggScripts
    /\ agg_pc = "start"
    /\ IF /\ in_csv.exists
          /\ in_has_date
          /\ prog = "audio_quality_daily"
                => ~ DtAccessorFails(DateColumn(prog, in_csv.rows, pandas))
       THEN /\ df' = LoadFrame(prog, in_csv.rows, pandas)
            /\ agg_pc' = "loaded"
       ELSE /\ df' = df
            /\ agg_pc' = "failed"
    /\ UNCHANGED <<prog, pandas, in_csv, in_has_date, out_csv, out_writes, daily, scanVars, poolVars, restVars>>

\* audio_quality_daily.py:55-70, image_quality_daily.py:50-63,
\* logs_daily_summary.py:84-101
AggGroup ==
    /\ prog \in AggScripts
    /\ agg_pc = "loaded"
    /\ daily' = DailyAggregate(prog, df)
    /\ agg_pc' = "grouped"
    /\ UNCHANGED <<prog, pandas, in_csv, in_has_date, out_csv, out_writes, df, scanVars, poolVars, restVars>>

\* audio_quality_daily.py:73-74, image_quality_daily.py:66-67
AggAssert ==
    /\ prog \in {"audio_quality_daily", "image_quality_daily"}
    /\ agg_pc = "grouped"
    /\ agg_pc' = IF IntegrityCheck(daily, df) THEN "checked" ELSE "failed"
    /\ UNCHANGED <<prog, pandas, in_csv, in_has_date, out_csv, out_writes, df, daily, scanVars, poolVars, restVars>>

\* audio_quality_daily.py:77, image_quality_daily.py:70,
\* logs_daily_summary.py:104-105
AggWrite ==
    /\ \/ prog \in {"audio_quality_daily", "image_quality_daily"} /\ agg_pc = "checked"
       \/ prog = "logs_daily_summary" /\ agg_pc = "grouped"
    /\ out_csv' = [exists |-> TRUE, rows |-> daily]
    /\ out_writes' = out_writes + 1
    /\ agg_pc' = "done"
    /\ UNCHANGED <<prog, pandas, in_csv, in_has_date, df, daily, scanVars, poolVars, restVars>>

NextAgg == AggLoad \/ AggGroup \/ AggAssert \/ AggWrite

SpecAgg == InitAgg /\ [][NextAgg]_vars


(***************************************************************************)
(* Properties of the daily aggregators                                     *)
(***************************************************************************)
Aggregated == agg_pc \in {"grouped", "checked", "done"}

\* Indices of the records of the loaded frame whose date is k.
RecordsOn(k) == {i \in 1..Len(df) : df[i].date = k}

WithValue(I) == {i \in I : df[i].value # <<>>}

RECURSIVE ValueSum(_)
ValueSum(I) ==
    IF I = {} THEN 0
    ELSE LET i == CHOOSE x \in I : TRUE
         IN  df[i].value[1] + ValueSum(I \ {i})

\* m is the arithmetic mean of the values of the records I (all present).
IsMeanOf(m, I) ==
    IF I = {} THEN m = <<>>
    ELSE /\ Len(m) = 2
         /\ m[2] > 0
         /\ m[1] * Cardinality(I) = ValueSum(I) * m[2]

InputDates == {df[i].date : i \in 1..Len(df)} \ {NaT}

\* C7: the table audio_quality_daily / image_quality_daily writes has exactly
\* one row per distinct date of the input (the dates as the script read
\* them: timestamps, or the texts of the cells when the column was left as
\* text), in ascending date order; the row's
\* count is the number of input records of that date and, when each of them
\* carries the metric, its mean is the arithmetic mean of their values.
C7_OneRowPerDateCountAndMean ==
    (prog \in {"audio_quality_daily", "image_quality_daily"} /\ agg_pc = "done") =>
        LET out == out_csv.rows
        IN  /\ {out[i].date : i \in 1..Len(out)} = InputDates
            /\ Len(out) = Cardinality(InputDates)
            /\ \A i, j \in 1..Len(out) :
                  i < j => DateLess(out[i].date, out[j].date)
            /\ \A i \in 1..Len(out) :
                  /\ out[i].n = Cardinality(RecordsOn(out[i].date))
                  /\ WithValue(RecordsOn(out[i].date)) = RecordsOn(out[i].date)
                        => IsMeanOf(out[i].mean, RecordsOn(out[i].date))

\* C7 witness: three records of 2024-06-01 with values 0.1, 0.2, 0.3 were
\* aggregated to count 3 and mean 0.2 (values in tenths).
C7_Witness ==
    /\ prog = "audio_quality_daily"
    /\ agg_pc = "done"
    /\ {in_csv.rows[i].value : i \in 1..Len(in_csv.rows)} = {<<1>>, <<2>>, <<3>>}
    /\ out_csv.rows = << [date |-> [day |-> 20240601, tod |-> 0],
                          n |-> 3, mean |-> <<2, 1>>] >>

\* A step of audio_quality_daily / image_quality_daily as C8 allows it.
C8_Step ==
    prog \in {"audio_quality_daily", "image_quality_daily"} =>
        /\ (out_csv' # out_csv \/ out_writes' # out_writes)
              => (agg_pc = "checked" /\ SumN(daily) = Len(df))
        /\ (agg_pc = "grouped" /\ SumN(daily) # Len(df))
              => (agg_pc' = "failed" /\ out_csv' = out_csv /\ out_writes' = out_writes)
        /\ agg_pc = "failed" => agg_pc' = "failed"

\* C8: audio_quality_daily / image_quality_daily change the output file only
\* from the state in which the sum of the per-date counts equals the number
\* of input records; when the sum differs the run fails and the output file
\* stays as it was.
C8_WriteOnlyWhenCountsAddUp == [][C8_Step]_vars

\* C8 witness: a run over an input with a record that has no date (or no
\* path) failed and left the existing output file as it was.
C8_Witness ==
    /\ prog \in {"audio_quality_daily", "image_quality_daily"}
    /\ agg_pc = "failed"
    /\ in_csv.exists
    /\ SumN(daily) # Len(df)
    /\ out_writes = 0
    /\ out_csv = [exists |-> TRUE, rows |-> OldOutput]

\* The frame without its record i.
Without(frame, i) == SubSeq(frame, 1, i - 1) \o SubSeq(frame, i + 1, Len(frame))

\* The count and mean a daily table holds for date k (0 and NaN if no row).
CountFor(d, k) ==
    IF \E r \in 1..Len(d) : d[r].date = k
    THEN d[CHOOSE r \in 1..Len(d) : d[r].date = k].n
    ELSE 0

MeanFor(d, k) ==
    IF \E r \in 1..Len(d) : d[r].date = k
    THEN d[CHOOSE r \in 1..Len(d) : d[r].date = k].mean
    ELSE <<>>

\* Record i of the frame has a date and a path but no metric value; it adds
\* 1 to the count of its date and nothing to the mean.
CountedNotAveraged(i) ==
    (df[i].value = <<>> /\ df[i].date # NaT /\ df[i].path # <<>>) =>
        LET rest == DailyAggregate(prog, Without(df, i))
            k == df[i].date
        IN  /\ \E r \in 1..Len(daily) : daily[r].date = k
            /\ CountFor(daily, k) = CountFor(rest, k) + 1
            /\ MeanFor(daily, k) = MeanFor(rest, k)

\* C9 (as claimed): in each of the three aggregators a record whose metric
\* value is missing is left out of the mean of its date and still adds 1 to
\* the record count of its date.
C9_MissingValueStillCounted ==
    Aggregated => \A i \in 1..Len(df) : CountedNotAveraged(i)

\* What audio_quality_daily and image_quality_daily guarantee.
MissingValueStillCountedByPath ==
    (Aggregated /\ prog # "logs_daily_summary") =>
        \A i \in 1..Len(df) : CountedNotAveraged(i)

\* Rows of a daily table as a set of <<date, count, mean>>.
RowSet(d) == {<<d[i].date, d[i].n, d[i].mean>> : i \in 1..Len(d)}

DatesOf(frame) == {frame[i].date : i \in 1..Len(frame)} \ {NaT}

IndexPerms(n) == {f \in [1..n -> 1..n] : \A i, j \in 1..n : f[i] = f[j] => i = j}

\* C10: if the loaded table is the concatenation of two tables with disjoint
\* date sets, its daily rows are the union of the daily rows of the two
\* parts (date, count, mean); and aggregating the same records in any other
\* order gives the identical daily table.
C10_DisjointUnionAndOrderIndependence ==
    Aggregated =>
        /\ \A c \in 0..Len(df) :
              LET A == SubSeq(df, 1, c)
                  B == SubSeq(df, c + 1, Len(df))
              IN  DatesOf(A) \cap DatesOf(B) = {} =>
                      RowSet(daily) = RowSet(DailyAggregate(prog, A))
                                          \cup RowSet(DailyAggregate(prog, B))
        /\ \A f \in IndexPerms(Len(df)) :
              DailyAggregate(prog, [i \in 1..Len(df) |-> df[f[i]]]) = daily

\* C10 witness: an aggregated table with two dates that splits into two
\* non-empty parts with disjoint dates, listed latest date first.
C10_Witness ==
    /\ Aggregated
    /\ Len(daily) = 2
    /\ Len(df) = 3
    /\ df[1].date # NaT
    /\ df[1].date # daily[1].date
    /\ \E c \in 1..2 : DatesOf(SubSeq(df, 1, c)) \cap DatesOf(SubSeq(df, c + 1, 3)) = {}


(***************************************************************************)
(* audio_quality.py: the parallel per-file extractor.                      *)
(*                                                                         *)
(* A file is [parts, decodes, metrics, err]: the parts of its path         *)
(* relative to audio_root (each a sequence of characters), whether         *)
(* extract_audio_metrics succeeds on it, the metrics it then returns and   *)
(* the message of the exception it raises otherwise.                       *)
(***************************************************************************)
AudioRoot == <<"/", "s", "n", "d">>

AUDIO_EXTENSIONS ==
    { <<".", "m", "p", "3">>, <<".", "w", "a", "v">>, <<".", "f", "l", "a", "c">> }

\* The characters of the alphabet, other than ASCII letters, that
\* str.lower() changes, each with its lower-case character.
LowerOthers ==
  <<<<"u00c0", "u00e0">>, <<"u00c1", "u00e1">>, <<"u00c2", "u00e2">>,
    <<"u00c3", "u00e3">>, <<"u00c4", "u00e4">>, <<"u00c5", "u00e5">>,
    <<"u00c6", "u00e6">>, <<"u00c7", "u00e7">>, <<"u00c8", "u00e8">>,
    <<"u00c9", "u00e9">>, <<"u00ca", "u00ea">>, <<"u00cb", "u00eb">>,
    <<"u00cc", "u00ec">>, <<"u00cd", "u00ed">>, <<"u00ce", "u00ee">>,
    <<"u00cf", "u00ef">>, <<"u00d0", "u00f0">>, <<"u00d1", "u00f1">>,
    <<"u00d2", "u00f2">>, <<"u00d3", "u00f3">>, <<"u00d4", "u00f4">>,
    <<"u00d5", "u00f5">>, <<"u00d6", "u00f6">>, <<"u00d8", "u00f8">>,
    <<"u00d9", "u00f9">>, <<"u00da", "u00fa">>, <<"u00db", "u00fb">>,
    <<"u00dc", "u00fc">>, <<"u00dd", "u00fd">>, <<"u00de", "u00fe">>,
    <<"u212a", "k">>>>

\* str.lower() on a character of the alphabet
LowerChar(c) ==
    IF c \in AsciiSet /\ CharCode(c) \in 65..90
    THEN AsciiChars[CharCode(c) + 32 - 31]
    ELSE IF \E i \in 1..Len(LowerOthers) : LowerOthers[i][1] = c
    THEN LowerOthers[CHOOSE i \in 1..Len(LowerOthers) : LowerOthers[i][1] = c][2]
    ELSE c

Lower(s) == [i \in 1..Len(s) |-> LowerChar(s[i])]

\* PurePath.suffix of a file name: from its last dot, "" when there is no
\* dot, or the only dot starts or ends the name.
Suffix(name) ==
    LET dots == {i \in 2..Len(name) : name[i] = "."}
    IN  IF dots = {} \/ name[Len(name)] = "." THEN <<>>
        ELSE LET k == CHOOSE i \in dots : \A j \in dots : j <= i
             IN  SubSeq(name, k, Len(name))

RECURSIVE JoinPath(_)
JoinPath(parts) ==
    IF Len(parts) = 1 THEN parts[1]
    ELSE parts[1] \o <<"/">> \o JoinPath(Tail(parts))

\* Variant of infer_date_from_path that reads the last part of the path.
infer_date_from_last_part(audio_root, parts) == Prefix(parts[Len(parts)], 10)

\* audio_quality.py:58-64; the path is given by its parts under audio_root
infer_date_from_path(audio_root, parts) == Prefix(parts[1], 10)

\* audio_quality.py:86-106
worker(f) ==
    IF f.decodes
    THEN [date            |-> infer_date_from_path(AudioRoot, f.parts),
          relative_path   |-> JoinPath(f.parts),
          duration_sec    |-> f.metrics.duration,
          rms_dbfs        |-> f.metrics.rms_dbfs,
          zcr             |-> f.metrics.zcr,
          sample_rate     |-> f.metrics.sr,
          file_size_bytes |-> f.metrics.size]
    ELSE [error |-> f.err, path |-> AudioRoot \o <<"/">> \o JoinPath(f.parts)]

\* Variant of IsErrorResult that looks for a key no result has.
IsErrorResult_Typo(res) == "errors" \in DOMAIN res

\* audio_quality.py:154
IsErrorResult(res) == "error" \in DOMAIN res

\* audio_quality.py:134-138: the files main submits, as a set
SelectedFiles(files, cal) ==
    { f \in files :
        /\ Lower(Suffix(f.parts[Len(f.parts)])) \in AUDIO_EXTENSIONS
        /\ (~ cal.restrict \/ infer_date_from_path(AudioRoot, f.parts) \in cal.dates) }

\* Variant of AllResultsCollected: the loop ends as soon as no result waits.
NoResultWaiting == outq = <<>>

\* The for loop over imap_unordered ends when a result has been yielded for
\* every submitted file (audio_quality.py:149-157).
AllResultsCollected == Len(rows) + errors = Len(all_files)

Metrics(d, r) == [duration |-> d, rms_dbfs |-> r, zcr |-> 1, sr |-> 44100, size |-> 10 * d]

AudioFile(top, name, ok, d, r) ==
    [parts |-> <<top, name>>, decodes |-> ok, metrics |-> Metrics(d, r),
     err |-> IF ok THEN "" ELSE "decode failed"]

D3 == DateName(2024, 6, 3)

\* The entries rglob yields.  An entry that does not decode stands for a
\* broken file and for a directory named like an audio file alike: both are
\* submitted and both fail in the worker.
FilePool ==
    { AudioFile(D1, <<"a", ".", "m", "p", "3">>, TRUE, 5, 1),
      AudioFile(D1 \o <<"_", "h">>, <<"b", ".", "w", "a", "v">>, TRUE, 6, 2),
      AudioFile(D2, <<"c", ".", "m", "p", "3">>, FALSE, 0, 0),
      AudioFile(D2, <<"d", ".", "f", "l", "a", "c">>, TRUE, 7, 3),
      AudioFile(D1, <<"e", ".", "t", "x", "t">>, TRUE, 5, 1),
      AudioFile(D3, <<"f", ".", "m", "p", "3">>, TRUE, 5, 3),
      AudioFile(D1, <<"g", ".", "M", "P", "3">>, FALSE, 0, 0) }

RECURSIVE FileSetsUpTo(_)
FileSetsUpTo(k) ==
    IF k = 0 THEN {{}}
    ELSE LET P == FileSetsUpTo(k - 1)
         IN  P \cup { s \cup {x} : s \in P, x \in FilePool }

\* The orders in which rglob can yield a set of files.
Orderings(S) ==
    { q \in [1..Cardinality(S) -> S] : \A i, j \in DOMAIN q : q[i] = q[j] => i = j }

OldAudioOutput == << [date |-> DateName(2023, 1, 1)] >>

InitPool ==
    /\ prog = "audio_quality"
    /\ pandas = "cell by cell"
    /\ tree \in FileSetsUpTo(MaxFiles)
    /\ calendar \in { [restrict |-> FALSE, dates |-> {}],
                      [restrict |-> TRUE,  dates |-> {D1, D2}] }
    /\ workers \in 1..MaxWorkers
    /\ all_files = <<>>
    /\ tasks = <<>>
    /\ running = [w \in 1..workers |-> 0]
    /\ outq = <<>>
    /\ rows = <<>>
    /\ errors = 0
    /\ pool_pc = "start"
    /\ aq_output \in { [exists |-> FALSE, rows |-> <<>>],
                       [exists |-> TRUE,  rows |-> OldAudioOutput] }
    /\ aq_writes = 0
    /\ ScanIdle
    /\ AggIdle
    /\ RestIdle

\* audio_quality.py:134-150: collect the files and submit them to the pool
PoolSubmit ==
    /\ prog = "audio_quality"
    /\ pool_pc = "start"
    /\ all_files' \in Orderings(SelectedFiles(tree, calendar))
    /\ tasks' = [i \in 1..Len(all_files') |-> i]
    /\ rows' = <<>>
    /\ errors' = 0
    /\ pool_pc' = "collect"
    /\ UNCHANGED <<prog, pandas, tree, calendar, workers, running, outq, aq_output,
                   aq_writes, scanVars, aggVars, restVars>>

\* An idle worker process takes the next submitted file.
WorkerTake(w) ==
    /\ prog = "audio_quality"
    /\ pool_pc = "collect"
    /\ running[w] = 0
    /\ tasks # <<>>
    /\ running' = [running EXCEPT ![w] = Head(tasks)]
    /\ tasks' = Tail(tasks)
    /\ UNCHANGED <<prog, pandas, tree, calendar, workers, all_files, outq, rows, errors,
                   pool_pc, aq_output, aq_writes, scanVars, aggVars, restVars>>

\* A worker process finishes worker(args) and sends the result back.
WorkerFinish(w) ==
    /\ prog = "audio_quality"
    /\ pool_pc = "collect"
    /\ running[w] # 0
    /\ outq' = Append(outq, worker(all_files[running[w]]))
    /\ running' = [running EXCEPT ![w] = 0]
    /\ UNCHANGED <<prog, pandas, tree, calendar, workers, all_files, tasks, rows, errors,
                   pool_pc, aq_output, aq_writes, scanVars, aggVars, restVars>>

\* audio_quality.py:149-157: main takes the next result that is ready
PoolCollect ==
    /\ prog = "audio_quality"
    /\ pool_pc = "collect"
    /\ outq # <<>>
    /\ LET res == Head(outq)
       IN  IF IsErrorResult(res)
           THEN errors' = errors + 1 /\ rows' = rows
           ELSE rows' = Append(rows, res) /\ errors' = errors
    /\ outq' = Tail(outq)
    /\ UNCHANGED <<prog, pandas, tree, calendar, workers, all_files, tasks, running,
                   pool_pc, aq_output, aq_writes, scanVars, aggVars, restVars>>

\* audio_quality.py:148-157: the loop ends and the with block closes the pool
PoolClose ==
    /\ prog = "audio_quality"
    /\ pool_pc = "collect"
    /\ AllResultsCollected
    /\ pool_pc' = "write"
    /\ UNCHANGED <<prog, pandas, tree, calendar, workers, all_files, tasks, running, outq,
                   rows, errors, aq_output, aq_writes, scanVars, aggVars, restVars>>

\* audio_quality.py:159-161
PoolWrite ==
    /\ prog = "audio_quality"
    /\ pool_pc = "write"
    /\ aq_output' = [exists |-> TRUE, rows |-> rows]
    /\ aq_writes' = aq_writes + 1
    /\ pool_pc' = "done"
    /\ UNCHANGED <<prog, pandas, tree, calendar, workers, all_files, tasks, running, outq,
                   rows, errors, scanVars, aggVars, restVars>>

NextPool ==
    \/ PoolSubmit
    \/ \E w \in 1..workers : WorkerTake(w)
    \/ \E w \in 1..workers : WorkerFinish(w)
    \/ PoolCollect
    \/ PoolClose
    \/ PoolWrite

SpecPool == InitPool /\ [][NextPool]_vars


(***************************************************************************)
(* Properties of the parallel extractor                                    *)
(***************************************************************************)
Submitted == {all_files[i] : i \in 1..Len(all_files)}

Busy == {w \in 1..workers : running[w] # 0}

\* The top-level folder of a relative path "top/.../name".
TopOf(relpath) ==
    LET slashes == {i \in 1..Len(relpath) : relpath[i] = "/"}
    IN  IF slashes = {} THEN relpath
        ELSE SubSeq(relpath, 1, (CHOOSE i \in slashes : \A j \in slashes : i <= j) - 1)

\* C4: every submitted file is, at any moment, waiting, being processed, or
\* has produced exactly one result; the result of a failing file holds its
\* path and message and no metric; and once the pool is drained the rows are
\* exactly the files that decode and the error counter is the number of
\* files that do not, whichever files fail.
C4_FailuresAreIsolated ==
    pool_pc \in {"collect", "write", "done"} =>
        /\ Len(tasks) + Cardinality(Busy) + Len(outq) + Len(rows) + errors
               = Len(all_files)
        /\ \A i \in 1..Len(outq) :
              \/ /\ DOMAIN outq[i] = {"error", "path"}
                 /\ \E f \in Submitted :
                       /\ ~ f.decodes
                       /\ outq[i].error = f.err
                       /\ outq[i].path = AudioRoot \o <<"/">> \o JoinPath(f.parts)
              \/ /\ "error" \notin DOMAIN outq[i]
                 /\ \E f \in Submitted :
                       f.decodes /\ outq[i].relative_path = JoinPath(f.parts)
        /\ (tasks = <<>> /\ Busy = {} /\ outq = <<>>) =>
              /\ Len(rows) + errors = Len(all_files)
              /\ errors = Cardinality({f \in Submitted : ~ f.decodes})
              /\ Len(rows) = Cardinality({f \in Submitted : f.decodes})
              /\ \A i \in 1..Len(rows) : "error" \notin DOMAIN rows[i]
              /\ {rows[i].relative_path : i \in 1..Len(rows)}
                     = {JoinPath(f.parts) : f \in {g \in Submitted : g.decodes}}

\* C4 witness: a batch in which two files failed and one decoded was
\* collected to the end and written.
C4_Witness ==
    /\ pool_pc = "done"
    /\ errors = 2
    /\ Len(rows) = 1
    /\ aq_output.rows = rows

\* The per-date table audio_quality_daily computes from extractor rows.
RowsAsCsv(rs) ==
    [i \in 1..Len(rs) |->
        [date |-> rs[i].date, path |-> <<rs[i].relative_path>>,
         value |-> <<rs[i].rms_dbfs>>]]

\* The run of audio_quality_daily fails when the date column stays text.
DailyOfRows(rs, parser) ==
    IF DtAccessorFails(DateColumn("audio_quality_daily", RowsAsCsv(rs), parser))
    THEN [failed |-> TRUE, daily |-> <<>>]
    ELSE [failed |-> FALSE,
          daily  |-> DailyAggregate("audio_quality_daily",
                         LoadFrame("audio_quality_daily", RowsAsCsv(rs), parser))]

\* The rows in the order the files were submitted.
RECURSIVE RowsInSubmissionOrder(_)
RowsInSubmissionOrder(files) ==
    IF files = <<>> THEN <<>>
    ELSE (IF Head(files).decodes THEN <<worker(Head(files))>> ELSE <<>>)
             \o RowsInSubmissionOrder(Tail(files))

\* C5: whatever the order in which the results came back, the run ends with
\* the same set of rows and the same error count, each row carries the date
\* of the top-level folder of its own path, and the daily table computed
\* from the rows is the one computed from the rows in submission order.
C5_CompletionOrderIsIrrelevant ==
    pool_pc \in {"write", "done"} =>
        /\ {rows[i] : i \in 1..Len(rows)}
               = {worker(f) : f \in {g \in Submitted : g.decodes}}
        /\ errors = Cardinality({i \in 1..Len(all_files) : ~ all_files[i].decodes})
        /\ \A i \in 1..Len(rows) :
              rows[i].date = Prefix(TopOf(rows[i].relative_path), 10)
        /\ \A p \in PandasParsers :
              DailyOfRows(rows, p) = DailyOfRows(RowsInSubmissionOrder(all_files), p)

\* C5 witness: the rows were collected in another order than the files were
\* submitted, and they belong to two different dates.
C5_Witness ==
    /\ pool_pc = "done"
    /\ rows # RowsInSubmissionOrder(all_files)
    /\ \A p \in PandasParsers : Len(DailyOfRows(rows, p).daily) = 2

\* A step that changes the output file is the one write of main, taken when
\* no file is waiting, no worker is busy, no result is uncollected.
C6_Step ==
    (aq_output' # aq_output \/ aq_writes' # aq_writes) =>
        /\ pool_pc = "write"
        /\ aq_writes = 0
        /\ aq_writes' = 1
        /\ tasks = <<>>
        /\ Busy = {}
        /\ outq = <<>>
        /\ Len(rows) + errors = Len(all_files)
        /\ aq_output' = [exists |-> TRUE, rows |-> rows]

\* C6: the output file is written exactly once, by main, and only after a
\* row or an error has been collected for every submitted file.
C6_SingleWriteAfterAllResults ==
    /\ [][C6_Step]_vars
    /\ [](pool_pc = "done" => aq_writes = 1)
    /\ [](pool_pc # "done" => aq_writes = 0)

\* C6 witness: a finished run over three files whose output holds the rows.
C6_Witness ==
    /\ pool_pc = "done"
    /\ aq_writes = 1
    /\ Len(all_files) = 3
    /\ aq_output = [exists |-> TRUE, rows |-> rows]


(***************************************************************************)
(* parse_logs_to_csv.py: the log flattener.                                *)
(*                                                                         *)
(* A JSON value is [kind, str, num, items]: kind is "null", "str", "num"   *)
(* or "list" ("absent" marks a key the object does not have); only the     *)
(* field of its kind is significant.  A JSON object is a function from     *)
(* FieldNames to values.  A line of a log file is [text, top, obj]: text   *)
(* is "blank" (empty after strip()), "malformed" (json.loads raises) or    *)
(* "json"; top tells whether the parsed value is an object, obj is the     *)
(* object.  None is JNull.                                                 *)
(***************************************************************************)
JNull == [kind |-> "null", str |-> <<>>, num |-> 0, items |-> <<>>]

JAbsent == [kind |-> "absent", str |-> <<>>, num |-> 0, items |-> <<>>]

JStr(s) == [kind |-> "str", str |-> s, num |-> 0, items |-> <<>>]

JNum(n) == [kind |-> "num", str |-> <<>>, num |-> n, items |-> <<>>]

JList(xs) == [kind |-> "list", str |-> <<>>, num |-> 0, items |-> xs]

FieldNames ==
    {"frame_dto", "dto", "img", "dba", "dba_dto", "intersection", "cross",
     "probs", "cls", "point_len", "tid", "seq_len", "seq_path", "box"}

\* parse_logs_to_csv.py:171-181
fieldnames ==
    {"date", "time", "frame_dto", "dto", "img_path", "img_file", "dba",
     "dba_dto", "intersection_0", "intersection_1", "cross_0_0", "cross_0_1",
     "cross_1_0", "cross_1_1", "probs", "cls", "point_len", "box_x1",
     "box_y1", "box_x2", "box_y2", "tid", "seq_len", "seq_path", "log_file"}

\* dict.get(key): None for a missing key
Get(rec, key) == IF rec[key].kind = "absent" THEN JNull ELSE rec[key]

\* bool(v)
Truthy(v) ==
    CASE v.kind = "str"  -> v.str # <<>>
      [] v.kind = "num"  -> v.num # 0
      [] v.kind = "list" -> v.items # <<>>
      [] OTHER           -> FALSE

\* v or []
OrEmptyList(v) == IF Truthy(v) THEN v ELSE JList(<<>>)

\* len(v) is defined for strings and lists; it raises TypeError for a number
HasLen(v) == v.kind \in {"str", "list"}

LenOf(v) == IF v.kind = "str" THEN Len(v.str) ELSE Len(v.items)

\* v[i - 1] in Python's indexing: a character of a string, an item of a list
ItemOf(v, i) == IF v.kind = "str" THEN JStr(<<v.str[i]>>) ELSE v.items[i]

\* v[i - 1] if len(v) > i - 1 else None   (parse_logs_to_csv.py:94-121)
ItemAt(v, i) == IF LenOf(v) > i - 1 THEN ItemOf(v, i) ELSE JNull

\* The characters str.split() splits at (str.isspace).
SpaceChars ==
    {"\t", "\n", "u000b", "\f", "\r", "u001c", "u001d", "u001e", "u001f",
     " ", "u0085", "u00a0", "u1680", "u2000", "u2001", "u2002", "u2003",
     "u2004", "u2005", "u2006", "u2007", "u2008", "u2009", "u200a", "u2028",
     "u2029", "u202f", "u205f", "u3000"}

\* str.split(): the maximal runs of non-whitespace characters
IsSpace(c) == c \in SpaceChars

RECURSIVE SplitWs(_, _)
SplitWs(s, cur) ==
    IF s = <<>> THEN (IF cur = <<>> THEN <<>> ELSE <<cur>>)
    ELSE IF IsSpace(Head(s))
         THEN (IF cur = <<>> THEN <<>> ELSE <<cur>>) \o SplitWs(Tail(s), <<>>)
         ELSE SplitWs(Tail(s), Append(cur, Head(s)))

\* " " in s
HasSpace(s) == \E i \in 1..Len(s) : s[i] = " "

\* s.split("/")[0] and s.split("/")[-1]
FirstPart(s) ==
    LET S == {i \in 1..Len(s) : s[i] = "/"}
    IN  IF S = {} THEN s
        ELSE SubSeq(s, 1, (CHOOSE i \in S : \A j \in S : i <= j) - 1)

LastPart(s) ==
    LET S == {i \in 1..Len(s) : s[i] = "/"}
    IN  IF S = {} THEN s
        ELSE SubSeq(s, (CHOOSE i \in S : \A j \in S : j <= i) + 1, Len(s))

\* parse_logs_to_csv.py:63-73: date_str and time_str after the two timestamp
\* fields.  frame_dto.split()[:2] is unpacked into two names, which raises
\* ValueError when it has fewer than two tokens; dto.split()[0] raises
\* IndexError when it has none.
DateFromStamps(rec) ==
    LET frame_dto == Get(rec, "frame_dto")
        dto       == Get(rec, "dto")
        ft        == SplitWs(frame_dto.str, <<>>)
        dt        == SplitWs(dto.str, <<>>)
    IN  IF frame_dto.kind = "str" /\ HasSpace(frame_dto.str)
        THEN IF Len(ft) < 2
             THEN [raised |-> TRUE, date |-> JNull, time |-> JNull]
             ELSE [raised |-> FALSE, date |-> JStr(ft[1]), time |-> JStr(ft[2])]
        ELSE IF dto.kind = "str" /\ HasSpace(dto.str)
        THEN IF Len(dt) < 1
             THEN [raised |-> TRUE, date |-> JNull, time |-> JNull]
             ELSE [raised |-> FALSE, date |-> JStr(dt[1]), time |-> JNull]
        ELSE [raised |-> FALSE, date |-> JNull, time |-> JNull]

\* parse_logs_to_csv.py:76-84: the date of the folder the image path starts with
DateFromImg(img_path) ==
    LET folder == FirstPart(img_path.str)
    IN  IF /\ img_path.kind = "str"
           /\ Len(folder) >= 10
           /\ folder[5] = "-"
           /\ folder[8] = "-"
        THEN JStr(SubSeq(folder, 1, 10))
        ELSE JNull

\* A row of all-None cells (the value of a record that was not produced).
NoRow == [c \in fieldnames |-> JNull]

\* parse_logs_to_csv.py:60-149.  The result is [raised, row]; raised tells
\* that the function did not return.
flatten_log_record(rec, log_file) ==
    LET stamps       == DateFromStamps(rec)
        img_path     == Get(rec, "img")
        intersection == OrEmptyList(Get(rec, "intersection"))
        cross        == OrEmptyList(Get(rec, "cross"))
        rawbox       == OrEmptyList(Get(rec, "box"))
        box          == IF rawbox.kind = "list" THEN rawbox ELSE JList(<<>>)
        RowIsList(r) == LenOf(cross) > r - 1 /\ ItemOf(cross, r).kind = "list"
        CrossAt(r, c) == IF RowIsList(r) THEN ItemAt(ItemOf(cross, r), c) ELSE JNull
    IN  IF stamps.raised \/ ~ HasLen(intersection) \/ ~ HasLen(cross)
        THEN [raised |-> TRUE, row |-> NoRow]
        ELSE [raised |-> FALSE,
              row |->
                [date |-> IF stamps.date # JNull THEN stamps.date
                          ELSE DateFromImg(img_path),
                 time |-> stamps.time,
                 frame_dto |-> Get(rec, "frame_dto"),
                 dto |-> Get(rec, "dto"),
                 img_path |-> img_path,
                 img_file |-> IF img_path.kind = "str"
                              THEN JStr(LastPart(img_path.str)) ELSE JNull,
                 dba |-> Get(rec, "dba"),
                 dba_dto |-> Get(rec, "dba_dto"),
                 intersection_0 |-> ItemAt(intersection, 1),
                 intersection_1 |-> ItemAt(intersection, 2),
                 cross_0_0 |-> CrossAt(1, 1),
                 cross_0_1 |-> CrossAt(1, 2),
                 cross_1_0 |-> CrossAt(2, 1),
                 cross_1_1 |-> CrossAt(2, 2),
                 probs |-> Get(rec, "probs"),
                 cls |-> Get(rec, "cls"),
                 point_len |-> Get(rec, "point_len"),
                 box_x1 |-> ItemAt(box, 1),
                 box_y1 |-> ItemAt(box, 2),
                 box_x2 |-> ItemAt(box, 3),
                 box_y2 |-> ItemAt(box, 4),
                 tid |-> Get(rec, "tid"),
                 seq_len |-> Get(rec, "seq_len"),
                 seq_path |-> Get(rec, "seq_path"),
                 log_file |-> JStr(log_file)]]

(***************************************************************************)
(* parse_logs_to_csv.py: main.                                             *)
(***************************************************************************)
WARN_LIMIT == 10

TrafficTxt == <<"t", "r", "a", "f", "f", "i", "c", ".", "t", "x", "t">>

\* parse_logs_to_csv.py:51-54: sorted(glob("traffic.txt*"))
iter_log_files(root) ==
    SortedStrings({n \in DOMAIN root : Prefix(n, Len(TrafficTxt)) = TrafficTxt})

\* parse_logs_to_csv.py:195: "args.max_lines and total_lines >= args.max_lines";
\* an int is true when it is not 0.
CapReached(ml, total) == ml.given /\ ml.n # 0 /\ total >= ml.n

\* parse_logs_to_csv.py:211
ShouldWarn(errs) == errs <= WARN_LIMIT

\* parse_logs_to_csv.py:200-213: what the body of the loop does with a line:
\* "blank" (continue), "row" (a row is written) or "error" (the except branch).
LineOutcome(line, log_file) ==
    IF line.text = "blank" THEN [kind |-> "blank", row |-> NoRow]
    ELSE IF line.text = "malformed" \/ ~ line.top
    THEN [kind |-> "error", row |-> NoRow]
    ELSE LET r == flatten_log_record(line.obj, log_file)
         IN  IF r.raised THEN [kind |-> "error", row |-> NoRow]
             ELSE [kind |-> "row", row |-> r.row]

\* An entry of the logs folder that is a directory: the glob lists it by
\* its name and open() raises IsADirectoryError (parse_logs_to_csv.py:193).
\* It is written as the one entry "directory" in the place of the lines.
Directory == << [text |-> "directory"] >>

IsDirectory(content) == content = Directory

LinesOf(content) == IF IsDirectory(content) THEN <<>> ELSE content

\* parse_logs_to_csv.py:194: "for line in fin" decodes the file in chunks,
\* outside the try block.  A line whose bytes are not UTF-8 raises
\* UnicodeDecodeError when its chunk is decoded, that is when the line
\* `ahead` lines before it is read: the lines between the two are in the
\* same chunk and are never returned.  The read of line p raises when such
\* a line is at p or after it, p being within its reach.
RaisesAt(lines, p) ==
    \E k \in p..Len(lines) :
        lines[k].text = "undecodable" /\ k - lines[k].ahead <= p

(***************************************************************************)
(* Inputs of the flattener.                                                *)
(***************************************************************************)
MaxLogLines == 3      \* lines in the log files of a mixed folder
MaxBurst == 12        \* bad lines in a row in a long file

\* The object with the given fields and no other.
Obj(fields) ==
    [f \in FieldNames |-> IF f \in DOMAIN fields THEN fields[f] ELSE JAbsent]

NoObj == [f \in FieldNames |-> JAbsent]

JsonLine(o) == [text |-> "json", top |-> TRUE, obj |-> o]

BlankLine == [text |-> "blank", top |-> FALSE, obj |-> NoObj]

MalformedLine == [text |-> "malformed", top |-> FALSE, obj |-> NoObj]

\* A line holding JSON that is not an object, such as [1, 2].
NonObjectLine == [text |-> "json", top |-> FALSE, obj |-> NoObj]

\* A line with bytes that are not UTF-8, `ahead` lines after the first line
\* of the chunk it is decoded with (ahead is less than its line number).
UndecodableLine(ahead) ==
    [text |-> "undecodable", top |-> FALSE, obj |-> NoObj, ahead |-> ahead]

T10 == TimeText(10, 0, 0)

Nums(q) == [i \in 1..Len(q) |-> JNum(q[i])]

\* The spec's example line.
GoodLine ==
    JsonLine(Obj([dto |-> JStr(Text(D1, T10)), probs |-> JNum(9),
                  box |-> JList(Nums(<<1, 2, 3, 4>>))]))

\* A frame_dto that ends with a space: one token only.
OneTokenLine ==
    JsonLine(Obj([frame_dto |-> JStr(D1 \o <<" ">>), dto |-> JStr(Text(D2, T10))]))

LinePool == {BlankLine, MalformedLine, NonObjectLine, GoodLine, OneTokenLine}

RECURSIVE LinesUpTo(_)
LinesUpTo(k) ==
    IF k = 0 THEN {<<>>}
    ELSE LET T == LinesUpTo(k - 1)
         IN  T \cup {Append(t, l) : t \in T, l \in LinePool}

OtherLog == <<"x", ".", "t", "x", "t">>

\* A folder with traffic.txt and traffic.txt.1 holding the lines t split at
\* k, with or without a file the pattern does not match.
MixedFolder(t, k, other) ==
    LET cut == Min(k, Len(t))
        two == (TrafficTxt :> SubSeq(t, 1, cut))
                   @@ ((TrafficTxt \o <<".", "1">>) :> SubSeq(t, cut + 1, Len(t)))
    IN  IF other THEN two @@ (OtherLog :> <<GoodLine>>) ELSE two

MixedFolders ==
    { MixedFolder(t, k, o) :
        t \in LinesUpTo(MaxLogLines), k \in 0..MaxLogLines, o \in BOOLEAN }

\* Files with a line that is not UTF-8 among other lines.
UndecodableFiles ==
    { <<GoodLine, UndecodableLine(1), GoodLine>>,
      <<GoodLine, UndecodableLine(0), GoodLine>>,
      <<MalformedLine, GoodLine, UndecodableLine(1)>>,
      <<BlankLine, GoodLine, UndecodableLine(2)>>,
      <<UndecodableLine(0)>> }

\* Folders whose traffic.txt has such a line, and folders with a directory
\* named like a log file, alone or between two log files.
BrokenFolders ==
    { (TrafficTxt :> f) @@ ((TrafficTxt \o <<".", "1">>) :> <<GoodLine>>) :
        f \in UndecodableFiles }
    \cup { ((TrafficTxt \o <<".", "d">>) :> Directory),
           (TrafficTxt :> <<GoodLine, MalformedLine>>)
               @@ ((TrafficTxt \o <<".", "d">>) :> Directory)
               @@ ((TrafficTxt \o <<".", "z">>) :> <<GoodLine>>) }

\* The timestamp and image-path values the date is derived from.
D3Text == DateName(2024, 6, 3)

FrameDtoPool ==
    { JAbsent, JNull, JNum(5), JStr(Text(D1, T10)), JStr(D1),
      JStr(D1 \o <<" ">>), JStr(<<" ">>), JStr(Text(Text(D1, T10), <<"x">>)),
      JStr(D1 \o <<"\t">> \o T10) }

DtoPool == { JAbsent, JNull, JStr(Text(D2, T10)), JStr(D2), JStr(<<" ">>) }

ImgPool ==
    { JAbsent, JNull, JNum(7),
      JStr(D3Text \o <<"/", "f">>),
      JStr(D3Text \o <<"_", "h", "/", "s", "/", "f">>),
      JStr(<<"2", "0", "2", "4", "-", "0", "6", "-", "3", "/", "f">>),
      JStr(<<"2", "0", "2", "4", "x", "0", "6", "-", "0", "3", "/", "f">>),
      JStr(<<"f">>) }

StampLines ==
    { JsonLine([NoObj EXCEPT !["frame_dto"] = f, !["dto"] = d, !["img"] = g]) :
        f \in FrameDtoPool, d \in DtoPool, g \in ImgPool }

\* The array fields.
BoxPool ==
    { JAbsent, JNull, JNum(7), JStr(<<"a", "b">>) }
    \cup { JList(Nums(q)) : q \in { <<>>, <<0>>, <<0, 0>>, <<1, 2, 3>>,
                                    <<0, 2, 0, 4>>, <<1, 2, 3, 4, 5>> } }

IntersectionPool ==
    { JAbsent, JNull, JNum(0), JNum(5), JStr(<<"a", "b">>) }
    \cup { JList(Nums(q)) : q \in { <<>>, <<0>>, <<1, 2>>, <<1, 2, 3>> } }

CrossPool ==
    { JAbsent, JNull, JNum(5), JList(<<>>), JList(<<JList(<<>>)>>),
      JList(<<JList(Nums(<<1>>))>>),
      JList(<<JList(Nums(<<0, 2>>))>>),
      JList(<<JList(Nums(<<1, 2>>)), JList(Nums(<<3>>))>>),
      JList(<<JList(Nums(<<0, 0>>)), JList(Nums(<<0, 0>>))>>),
      JList(<<JList(Nums(<<1, 2>>)), JList(Nums(<<3, 4>>)), JList(Nums(<<5, 6>>))>>),
      JList(<<JNum(5), JList(Nums(<<3, 4>>))>>) }

ArrayLines ==
    { JsonLine([NoObj EXCEPT !["dto"] = d, !["box"] = b,
                             !["intersection"] = i, !["cross"] = c]) :
        d \in {JStr(Text(D1, T10)), JStr(<<" ">>)},
        b \in BoxPool, i \in IntersectionPool, c \in CrossPool }

\* n bad lines, then the spec's example line.
LongFile(n) ==
    [i \in 1..(n + 1) |->
        IF i = n + 1 THEN GoodLine
        ELSE IF i % 2 = 1 THEN MalformedLine ELSE OneTokenLine]

MaxLinesArgs(k) ==
    {[given |-> FALSE, n |-> 0]} \cup {[given |-> TRUE, n |-> m] : m \in (-1)..k}

InitFlat ==
    /\ prog = "parse_logs_to_csv"
    /\ pandas = "cell by cell"
    /\ \/ /\ logs_root \in MixedFolders
          /\ max_lines \in MaxLinesArgs(MaxLogLines)
       \/ /\ \E l \in StampLines \cup ArrayLines : logs_root = (TrafficTxt :> <<l>>)
          /\ max_lines = [given |-> FALSE, n |-> 0]
       \/ /\ \E n \in 0..MaxBurst : logs_root = (TrafficTxt :> LongFile(n))
          /\ max_lines \in {[given |-> FALSE, n |-> 0], [given |-> TRUE, n |-> 0],
                            [given |-> TRUE, n |-> MaxBurst]}
       \/ /\ logs_root = (OtherLog :> <<GoodLine>>)
          /\ max_lines = [given |-> FALSE, n |-> 0]
       \/ /\ logs_root \in BrokenFolders
          /\ max_lines \in MaxLinesArgs(1)
    /\ log_files = <<>>
    /\ lf_i = 1
    /\ line_i = 1
    /\ total_lines = 0
    /\ parsed = 0
    /\ fl_errors = 0
    /\ warnings = 0
    /\ \/ flat_out = NoFile /\ flat_hdr = {}
       \/ flat_out = [exists |-> TRUE, rows |-> <<NoRow>>] /\ flat_hdr = {"old"}
    /\ flat_runs = 1
    /\ flat_first = [out |-> NoFile, hdr |-> {}]
    /\ flat_pc = "start"
    /\ ScanIdle
    /\ AggIdle
    /\ PoolIdle
    /\ JoinIdle
    /\ ExIdle
    /\ DsIdle
    /\ LateIdle

\* Variant of OpenForWriting with mode "a": the content is kept.
OpenForWriting_Append(file) == [exists |-> TRUE, rows |-> file.rows]

\* parse_logs_to_csv.py:187: output_path.open("w") creates the file or
\* empties it
OpenForWriting(file) == [exists |-> TRUE, rows |-> <<>>]

\* parse_logs_to_csv.py:193: opening the i-th log file raises
\* IsADirectoryError
OpenFails(root, files, i) == i <= Len(files) /\ IsDirectory(root[files[i]])

\* parse_logs_to_csv.py:162-193: list the files; with none, exit(1) before
\* the output is opened; otherwise open the output for writing (which
\* empties it), write the header and open the first log file.
FlatStart ==
    /\ prog = "parse_logs_to_csv"
    /\ flat_pc = "start"
    /\ log_files' = iter_log_files(logs_root)
    /\ IF log_files' = <<>>
       THEN /\ flat_pc' = "exit1"
            /\ UNCHANGED <<flat_out, flat_hdr>>
       ELSE /\ flat_pc' = IF OpenFails(logs_root, log_files', 1)
                          THEN "IsADirectoryError" ELSE "loop"
            /\ flat_out' = OpenForWriting(flat_out)
            /\ flat_hdr' = fieldnames
    /\ total_lines' = 0
    /\ parsed' = 0
    /\ fl_errors' = 0
    /\ lf_i' = 1
    /\ line_i' = 1
    /\ UNCHANGED <<prog, pandas, logs_root, max_lines, warnings, flat_runs, flat_first,
                   scanVars, aggVars, poolVars, joinVars, exVars, dsVars,
                   lateVars>>

\* parse_logs_to_csv.py:194-216: one iteration of the inner for loop: the
\* read of the next line, which raises on bytes that are not UTF-8 and ends
\* the run with the rows written so far; the test of the line limit; the
\* body
FlatLine ==
    /\ prog = "parse_logs_to_csv"
    /\ flat_pc = "loop"
    /\ lf_i <= Len(log_files)
    /\ line_i <= Len(logs_root[log_files[lf_i]])
    /\ IF RaisesAt(logs_root[log_files[lf_i]], line_i)
       THEN /\ flat_pc' = "UnicodeDecodeError"
            /\ UNCHANGED <<line_i, total_lines, parsed, fl_errors, warnings, flat_out>>
       ELSE IF CapReached(max_lines, total_lines)
       THEN /\ flat_pc' = "done"
            /\ UNCHANGED <<line_i, total_lines, parsed, fl_errors, warnings, flat_out>>
       ELSE LET out == LineOutcome(logs_root[log_files[lf_i]][line_i], log_files[lf_i])
            IN  /\ total_lines' = total_lines + 1
                /\ line_i' = line_i + 1
                /\ parsed' = IF out.kind = "row" THEN parsed + 1 ELSE parsed
                /\ fl_errors' = IF out.kind = "error" THEN fl_errors + 1 ELSE fl_errors
                /\ warnings' = IF out.kind = "error" /\ ShouldWarn(fl_errors + 1)
                               THEN warnings + 1 ELSE warnings
                /\ flat_out' = IF out.kind = "row"
                               THEN [flat_out EXCEPT !.rows = Append(@, out.row)]
                               ELSE flat_out
                /\ UNCHANGED flat_pc
    /\ UNCHANGED <<prog, pandas, logs_root, max_lines, log_files, lf_i, flat_hdr,
                   flat_runs, flat_first, scanVars, aggVars, poolVars, joinVars,
                   exVars, dsVars,
                   lateVars>>

\* parse_logs_to_csv.py:191-194: the current file has no line left; the
\* next one, when there is one, is opened
FlatNextFile ==
    /\ prog = "parse_logs_to_csv"
    /\ flat_pc = "loop"
    /\ lf_i <= Len(log_files)
    /\ line_i > Len(logs_root[log_files[lf_i]])
    /\ lf_i' = lf_i + 1
    /\ line_i' = 1
    /\ flat_pc' = IF OpenFails(logs_root, log_files, lf_i + 1)
                  THEN "IsADirectoryError" ELSE flat_pc
    /\ UNCHANGED <<prog, pandas, logs_root, max_lines, log_files, total_lines, parsed,
                   fl_errors, warnings, flat_out, flat_hdr, flat_runs, flat_first,
                   scanVars, aggVars, poolVars, joinVars, exVars, dsVars,
                   lateVars>>

\* parse_logs_to_csv.py:218-222: no file is left
FlatDone ==
    /\ prog = "parse_logs_to_csv"
    /\ flat_pc = "loop"
    /\ lf_i > Len(log_files)
    /\ flat_pc' = "done"
    /\ UNCHANGED <<prog, pandas, logs_root, max_lines, log_files, lf_i, line_i,
                   total_lines, parsed, fl_errors, warnings, flat_out, flat_hdr,
                   flat_runs, flat_first, scanVars,
                   aggVars, poolVars, joinVars, exVars, dsVars,
                   lateVars>>

NextFlat == FlatStart \/ FlatLine \/ FlatNextFile \/ FlatDone

SpecFlat == InitFlat /\ [][NextFlat]_vars

\* The script is started a second time on the same logs folder with the
\* same arguments, once the first run has ended (parse_logs_to_csv.py:155-222
\* from the top: every local starts afresh, the files on disk stay).
FlatRerun ==
    /\ prog = "parse_logs_to_csv"
    /\ flat_pc \in {"done", "exit1", "UnicodeDecodeError", "IsADirectoryError"}
    /\ flat_runs = 1
    /\ flat_runs' = 2
    /\ flat_first' = [out |-> flat_out, hdr |-> flat_hdr]
    /\ flat_pc' = "start"
    /\ log_files' = <<>>
    /\ lf_i' = 1
    /\ line_i' = 1
    /\ total_lines' = 0
    /\ parsed' = 0
    /\ fl_errors' = 0
    /\ warnings' = 0
    /\ UNCHANGED <<prog, pandas, logs_root, max_lines, flat_out, flat_hdr, scanVars,
                   aggVars, poolVars, joinVars, exVars, dsVars,
                   lateVars>>

NextFlatTwice == NextFlat \/ FlatRerun

SpecFlatTwice == InitFlat /\ [][NextFlatTwice]_vars

(***************************************************************************)
(* Properties of the log flattener                                         *)
(***************************************************************************)
\* The run has ended with an exception after opening the output.
FlatRaised == flat_pc \in {"UnicodeDecodeError", "IsADirectoryError"}

FlatRunning == flat_pc \in {"loop", "done"} \/ FlatRaised

\* The lines of the files i..Len(log_files), each with the name of its file.
RECURSIVE LinesFrom(_)
LinesFrom(i) ==
    IF i > Len(log_files) THEN <<>>
    ELSE [k \in 1..Len(LinesOf(logs_root[log_files[i]])) |->
             [line |-> logs_root[log_files[i]][k], file |-> log_files[i]]]
         \o LinesFrom(i + 1)

AllLogLines == LinesFrom(1)

\* The lines the loop has gone through: the files before the current one
\* and the lines of the current file before line_i.
ProcessedLines ==
    LET before == SubSeq(AllLogLines, 1, Len(AllLogLines) - Len(LinesFrom(lf_i)))
    IN  IF lf_i > Len(log_files) THEN before
        ELSE before \o [k \in 1..(line_i - 1) |->
                           [line |-> logs_root[log_files[lf_i]][k],
                            file |-> log_files[lf_i]]]

IsBlank(e) == e.line.text = "blank"

IsObject(e) == e.line.text = "json" /\ e.line.top

\* The line fails to parse (no JSON) or to flatten (no object, or
\* flatten_log_record raises).
FailsToParseOrFlatten(e) ==
    \/ e.line.text = "malformed"
    \/ e.line.text = "json" /\ ~ e.line.top
    \/ IsObject(e) /\ flatten_log_record(e.line.obj, e.file).raised

IsWellFormed(e) ==
    IsObject(e) /\ ~ flatten_log_record(e.line.obj, e.file).raised

\* C11 (as claimed): with --max-lines N, N >= 0, at most N lines are read in
\* total over all files, and the output never holds more than N data rows.
C11_MaxLinesCapsLinesRead ==
    (FlatRunning /\ max_lines.given /\ max_lines.n >= 0) =>
        /\ total_lines <= max_lines.n
        /\ Len(flat_out.rows) <= max_lines.n

\* What the code guarantees: the cap for every N > 0.
PositiveMaxLinesCapsLinesRead ==
    (FlatRunning /\ max_lines.given /\ max_lines.n > 0) =>
        /\ total_lines <= max_lines.n
        /\ Len(flat_out.rows) <= max_lines.n

\* The counts and the rows after every line: total_lines is the number of
\* lines gone through and equals parsed + errors + blank lines; the rows
\* written are the well-formed lines gone through, in order, so their
\* number is parsed; at most 10 warnings are logged; and a run that ends
\* without a line limit and without an exception has gone through every
\* line of every file.
CountsAndRowsAfterEveryLine ==
    FlatRunning =>
        LET done == ProcessedLines
            good == SelectSeq(done, IsWellFormed)
        IN  /\ total_lines = Len(done)
            /\ total_lines = parsed + fl_errors + Len(SelectSeq(done, IsBlank))
            /\ fl_errors = Len(SelectSeq(done, FailsToParseOrFlatten))
            /\ Len(flat_out.rows) = parsed
            /\ Len(good) = parsed
            /\ \A k \in 1..Len(good) :
                  flat_out.rows[k] = flatten_log_record(good[k].line.obj, good[k].file).row
            /\ warnings <= 10
            /\ fl_errors <= 10 => warnings = fl_errors
            /\ (flat_pc = "done" /\ ~ (max_lines.given /\ max_lines.n # 0)) =>
                  total_lines = Len(AllLogLines)

\* C12 (as claimed): a line that fails to parse or flatten is counted and
\* skipped and never stops the run: the counts and the rows are as above
\* after every line, and no line ends the run with an exception, so that
\* every later well-formed line is still written.
C12_BadLinesAreSkipped ==
    /\ CountsAndRowsAfterEveryLine
    /\ flat_pc # "UnicodeDecodeError"

\* The run has stopped on a line that is not UTF-8 with a well-formed line
\* of the same file neither counted nor written.
StoppedBeforeWellFormedLine ==
    /\ flat_pc = "UnicodeDecodeError"
    /\ \E k \in line_i..Len(logs_root[log_files[lf_i]]) :
          IsWellFormed([line |-> logs_root[log_files[lf_i]][k], file |-> log_files[lf_i]])
    /\ total_lines < Len(AllLogLines)

\* Twelve bad lines were gone through, ten warnings logged, and the
\* well-formed line after them was written.
TwelveBadLinesTenWarnings ==
    /\ flat_pc = "done"
    /\ fl_errors = 12
    /\ warnings = 10
    /\ parsed = 1
    /\ Len(flat_out.rows) = 1
    /\ flat_out.rows[1].date = JStr(D1)
    /\ flat_out.rows[1].box_y2 = JNum(4)

\* The date of a record by the documented priority chain.
UsableStamp(v) ==
    v.kind = "str" /\ HasSpace(v.str) /\ SplitWs(v.str, <<>>) # <<>>

UsableImg(v) ==
    /\ v.kind = "str"
    /\ Len(FirstPart(v.str)) >= 10
    /\ FirstPart(v.str)[5] = "-"
    /\ FirstPart(v.str)[8] = "-"

ChainDate(o) ==
    IF UsableStamp(o["frame_dto"]) THEN JStr(SplitWs(o["frame_dto"].str, <<>>)[1])
    ELSE IF UsableStamp(o["dto"]) THEN JStr(SplitWs(o["dto"].str, <<>>)[1])
    ELSE IF UsableImg(o["img"]) THEN JStr(SubSeq(FirstPart(o["img"].str), 1, 10))
    ELSE JNull

\* The field is absent, null or an array.
ArrayOrMissing(v) == v.kind \in {"absent", "null", "list"}

ArraysWellTyped(o) ==
    /\ ArrayOrMissing(o["box"])
    /\ ArrayOrMissing(o["intersection"])
    /\ ArrayOrMissing(o["cross"])
    /\ \A r \in 1..Len(o["cross"].items) : o["cross"].items[r].kind = "list"

ObjectsDone == SelectSeq(ProcessedLines, IsObject)

\* C13 (as claimed): every JSON object gone through is emitted as a row, and
\* the row's date is the first token of frame_dto when that is a string with
\* a space, else the first token of dto when that is one, else the first 10
\* characters of the first component of img when it has dashes at positions
\* 4 and 7, else missing.
C13_DatePriorityChain ==
    (FlatRunning /\ \A k \in 1..Len(ObjectsDone) : ArraysWellTyped(ObjectsDone[k].line.obj)) =>
        /\ Len(flat_out.rows) = Len(ObjectsDone)
        /\ \A k \in 1..Len(ObjectsDone) :
              k <= Len(flat_out.rows) =>
                  flat_out.rows[k].date = ChainDate(ObjectsDone[k].line.obj)

\* The chain as the code implements it: it holds of the rows that are
\* written, that is, of the objects whose timestamps do not make
\* flatten_log_record raise.
DateChainOfWrittenRows ==
    FlatRunning =>
        LET good == SelectSeq(ProcessedLines, IsWellFormed)
        IN  \A k \in 1..Len(good) :
                k <= Len(flat_out.rows) =>
                    flat_out.rows[k].date = ChainDate(good[k].line.obj)

\* The element at position i of an array field, None when the field is
\* absent or null or the array is shorter.
ElementOrNone(v, i) ==
    IF v.kind = "list" /\ Len(v.items) >= i THEN v.items[i] ELSE JNull

DestructuredRow(row, o) ==
    /\ DOMAIN row = fieldnames
    /\ Cardinality(DOMAIN row) = 25
    /\ row.box_x1 = ElementOrNone(o["box"], 1)
    /\ row.box_y1 = ElementOrNone(o["box"], 2)
    /\ row.box_x2 = ElementOrNone(o["box"], 3)
    /\ row.box_y2 = ElementOrNone(o["box"], 4)
    /\ row.intersection_0 = ElementOrNone(o["intersection"], 1)
    /\ row.intersection_1 = ElementOrNone(o["intersection"], 2)
    /\ row.cross_0_0 = ElementOrNone(ElementOrNone(o["cross"], 1), 1)
    /\ row.cross_0_1 = ElementOrNone(ElementOrNone(o["cross"], 1), 2)
    /\ row.cross_1_0 = ElementOrNone(ElementOrNone(o["cross"], 2), 1)
    /\ row.cross_1_1 = ElementOrNone(ElementOrNone(o["cross"], 2), 2)

\* C14 (as claimed): for every JSON object whose box, intersection and cross
\* are arrays of any length, absent or null, flatten_log_record returns a
\* record (nothing is raised, so the object is emitted as a row) with the 25
\* columns, each named position holding the array element at its index, 0
\* included, and None when the position or the field is absent.
C14_ArraysDestructuredForEveryObject ==
    (FlatRunning /\ \A k \in 1..Len(ObjectsDone) : ArraysWellTyped(ObjectsDone[k].line.obj)) =>
        /\ Len(flat_out.rows) = Len(ObjectsDone)
        /\ \A k \in 1..Len(ObjectsDone) :
              k <= Len(flat_out.rows) =>
                  DestructuredRow(flat_out.rows[k], ObjectsDone[k].line.obj)

\* The destructuring itself: it holds of every row that is written.
ArraysDestructuredInWrittenRows ==
    FlatRunning =>
        LET good == SelectSeq(ProcessedLines, IsWellFormed)
        IN  \A k \in 1..Len(good) :
                (k <= Len(flat_out.rows) /\ ArraysWellTyped(good[k].line.obj)) =>
                    DestructuredRow(flat_out.rows[k], good[k].line.obj)

\* The rows a run writes, from the files in the order of the loop, their
\* lines and the line limit alone: the run is at line p of file i and has
\* read total lines.  It ends at a directory, at a read that raises and at
\* the line limit.
RowOfLine(out) == IF out.kind = "row" THEN <<out.row>> ELSE <<>>

RECURSIVE RowsOfRun(_, _, _)
RowsOfRun(i, p, total) ==
    IF i > Len(log_files) \/ OpenFails(logs_root, log_files, i) THEN <<>>
    ELSE IF p > Len(logs_root[log_files[i]]) THEN RowsOfRun(i + 1, 1, total)
    ELSE IF \/ RaisesAt(logs_root[log_files[i]], p)
            \/ CapReached(max_lines, total)
    THEN <<>>
    ELSE RowOfLine(LineOutcome(logs_root[log_files[i]][p], log_files[i]))
             \o RowsOfRun(i, p + 1, total + 1)

\* C23: every run of the log flattener writes a complete fresh output that
\* depends only on the current inputs and arguments: the file is truncated
\* and starts with the header row, its content does not depend on what the
\* output file held before, and running twice on the same inputs, with or
\* without the --max-lines limit being reached, leaves the same content as
\* running once.  This holds of the runs an exception ends as well: they
\* leave the header and the rows written before it.
C23_FreshOutputEveryRun ==
    /\ FlatRunning => (flat_out.exists /\ flat_hdr = fieldnames)
    /\ (flat_pc = "done" \/ FlatRaised) =>
           flat_out.rows = RowsOfRun(1, 1, 0)
    /\ (flat_runs = 2 /\ (flat_pc \in {"done", "exit1"} \/ FlatRaised)) =>
           (flat_out = flat_first.out /\ flat_hdr = flat_first.hdr)

\* A second run has ended on the line limit with lines left unread, and the
\* file holds the one row the first run left.
C23_Witness ==
    /\ flat_runs = 2
    /\ flat_pc = "done"
    /\ max_lines.given /\ max_lines.n = 1 /\ total_lines = 1
    /\ Len(AllLogLines) > 1
    /\ Len(flat_out.rows) = 1
    /\ flat_out.rows[1] # NoRow
    /\ flat_first.out = flat_out

(***************************************************************************)
(* join_audio_quality_and_sensor_daily.py and daily_join.py.               *)
(*                                                                         *)
(* A table on disk is [exists, cols, rows]; a row maps each column to a    *)
(* cell.  The date cell is the text of the date; any other cell is         *)
(* [t, v]: t is "blank", "num" (the number v) or "text" (no number).  In   *)
(* a frame the date is a parsed date and a cell is <<>> (NaN), <<v>> (the  *)
(* number v) or, in a column read as text, the pair <<t, v>> of the cell   *)
(* of the file.  join_in.a is the primary table (audio_quality_daily.csv,  *)
(* daily_counts.csv), join_in.b the second (audio_sensor_daily.csv,        *)
(* image_quality_daily.csv), join_in.c the third (logs_daily.csv).         *)
(***************************************************************************)
JoinScripts == {"join_audio_quality_and_sensor_daily", "daily_join"}

Blank == [t |-> "blank", v |-> 0]

Num(n) == [t |-> "num", v |-> n]

TextCell == [t |-> "text", v |-> 0]

\* pd.read_csv infers the type of a column: with a cell that holds no
\* number the column is a column of texts (dtype object).
IsObjectColumn(t, c) == \E i \in 1..Len(t.rows) : t.rows[i][c].t = "text"

\* pd.read_csv of a cell: NaN when it is empty, its number in a column of
\* numbers, its text in a column of texts
ReadCell(c, object) ==
    IF c.t = "blank" THEN <<>> ELSE IF object THEN <<c.t, c.v>> ELSE << c.v >>

\* The cell of a frame holds text.
IsTextValue(x) == Len(x) = 2

\* A comparison or a median of the column raises TypeError.
HoldsText(frame, col) == \E i \in 1..Len(frame) : IsTextValue(frame[i][col])

\* pd.to_numeric(errors="coerce") of a cell
ToNumeric(c) == IF c.t = "num" THEN <<c.v>> ELSE <<>>

\* join_audio_quality_and_sensor_daily.py:43
SENSOR_NUMERIC == {"snd_lvl_mean", "dba_mean", "dba_p90", "n_events"}

\* The table as the join holds it: pd.read_csv, then
\* pd.to_datetime(errors="coerce").dt.date on the date column; the columns
\* in coerce go through pd.to_numeric as well.
LoadedRows(t, coerce, dates) ==
    [i \in 1..Len(t.rows) |->
        [c \in t.cols |->
            IF c = "date" THEN Normalize(dates[i])
            ELSE IF c \in coerce THEN ToNumeric(t.rows[i][c])
            ELSE ReadCell(t.rows[i][c], IsObjectColumn(t, c))]]

LoadTable(t, coerce, parser) ==
    LoadedRows(t, coerce,
               read_csv_to_datetime([i \in 1..Len(t.rows) |-> t.rows[i]["date"]],
                                    parser))

HasBadDate(frame) == \E i \in 1..Len(frame) : frame[i]["date"] = NaT

\* The row of a merge: the left row's cells, the right row's cells for the
\* other columns; a side without a matching row gives NaN.
NaNRow(cols) == [c \in cols |-> <<>>]

\* DataFrame.merge(on="date"): a column other than the key that both sides
\* have is kept twice, as c_x with the left cells and c_y with the right.
Shared(lcols, rcols) == (lcols \cap rcols) \ {"date"}

MergedName(c, shared, suffix) == IF c \in shared THEN c \o suffix ELSE c

MergedCols(lcols, rcols) ==
    {MergedName(c, Shared(lcols, rcols), "_x") : c \in lcols}
        \cup {MergedName(c, Shared(lcols, rcols), "_y") : c \in rcols}

\* The cell of the merged column m: from the left row when m is the name
\* of a left column, else from the right row.
MergedCell(m, l, lcols, r, rcols, shared) ==
    IF \E c \in lcols : MergedName(c, shared, "_x") = m
    THEN l[CHOOSE c \in lcols : MergedName(c, shared, "_x") = m]
    ELSE r[CHOOSE c \in rcols : MergedName(c, shared, "_y") = m]

Combine(l, lcols, r, rcols) ==
    [m \in MergedCols(lcols, rcols) |->
        MergedCell(m, l, lcols, r, rcols, Shared(lcols, rcols))]

Matches(frame, k) == SelectSeq(frame, LAMBDA r : r["date"] = k)

RECURSIVE LeftMerge(_, _, _, _)
\* left.merge(right, on="date", how="left"): the left rows in their order,
\* each once per matching right row, or once with NaN when there is none
LeftMerge(left, lcols, right, rcols) ==
    IF left = <<>> THEN <<>>
    ELSE LET l == Head(left)
             m == Matches(right, l["date"])
         IN  (IF m = <<>>
              THEN << Combine(l, lcols, NaNRow(rcols), rcols) >>
              ELSE [j \in 1..Len(m) |-> Combine(l, lcols, m[j], rcols)])
             \o LeftMerge(Tail(left), lcols, right, rcols)

\* The rows of an outer merge for the key k.
KeyRows(left, lcols, right, rcols, k) ==
    LET lm == Matches(left, k)
        rm == Matches(right, k)
    IN  IF rm = <<>>
        THEN [i \in 1..Len(lm) |-> Combine(lm[i], lcols, NaNRow(rcols), rcols)]
        ELSE IF lm = <<>>
        THEN [j \in 1..Len(rm) |->
                 Combine([c \in lcols |-> IF c = "date" THEN k ELSE <<>>],
                         lcols, rm[j], rcols)]
        ELSE [n \in 1..(Len(lm) * Len(rm)) |->
                 Combine(lm[((n - 1) \div Len(rm)) + 1], lcols,
                         rm[((n - 1) % Len(rm)) + 1], rcols)]

RECURSIVE KeysRows(_, _, _, _, _)
KeysRows(left, lcols, right, rcols, keys) ==
    IF keys = <<>> THEN <<>>
    ELSE KeyRows(left, lcols, right, rcols, Head(keys))
             \o KeysRows(left, lcols, right, rcols, Tail(keys))

FrameDates(frame) == {frame[i]["date"] : i \in 1..Len(frame)}

\* Variant of OuterMerge with how="left".
OuterMerge_Left(left, lcols, right, rcols) ==
    KeysRows(left, lcols, right, rcols, SortedDates(FrameDates(left)))

\* left.merge(right, on="date", how="outer"): the keys of both sides in
\* ascending order (daily_join.py:95-99 sorts by date again)
OuterMerge(left, lcols, right, rcols) ==
    KeysRows(left, lcols, right, rcols,
             SortedDates(FrameDates(left) \cup FrameDates(right)))

\* The present values of a column, in ascending order.
RECURSIVE SortedValues(_)
SortedValues(q) ==
    IF q = <<>> THEN <<>>
    ELSE LET i == CHOOSE x \in 1..Len(q) : \A y \in 1..Len(q) : q[x] <= q[y]
         IN  <<q[i]>> \o SortedValues([j \in 1..(Len(q) - 1) |->
                                          IF j < i THEN q[j] ELSE q[j + 1]])

Present(frame, col) ==
    LET with == SelectSeq(frame, LAMBDA r : r[col] # <<>>)
    IN  [i \in 1..Len(with) |-> with[i][col][1]]

\* Series.median(): NaN skipped; <<>> (NaN) when no value is present, else
\* twice the median (the middle value counted twice, or the sum of the two
\* middle values).
MedianTwice(frame, col) ==
    LET sv == SortedValues(Present(frame, col))
        n  == Len(sv)
    IN  IF n = 0 THEN <<>>
        ELSE IF n % 2 = 1 THEN <<2 * sv[(n + 1) \div 2]>>
        ELSE <<sv[n \div 2] + sv[(n \div 2) + 1]>>

\* Variant of Below with <= (Series.le).
Below_OrEqual(cell, med2, tenths) ==
    /\ cell # <<>>
    /\ med2 # <<>>
    /\ 20 * cell[1] <= tenths * med2[1]

\* cell.lt(median * tenths/10): False for a NaN on either side
Below(cell, med2, tenths) ==
    /\ cell # <<>>
    /\ med2 # <<>>
    /\ 20 * cell[1] < tenths * med2[1]

\* Variant of df_get whose default is True.
df_get_DefaultTrue(present, flag) == IF present THEN flag ELSE TRUE

\* daily_join.py:62-66: df.get(column, False), the flag column when the
\* frame has it and False otherwise
df_get(present, flag) == IF present THEN flag ELSE FALSE

\* daily_join.py:40-68.  The frame is [cols, rows].
add_anomaly_flags(f) ==
    LET has_q == "img_quality_mean" \in f.cols
        has_l == "log_n_events" \in f.cols
        mc == MedianTwice(f.rows, "total_files")
        mq == IF has_q THEN MedianTwice(f.rows, "img_quality_mean") ELSE <<>>
        ml == IF has_l THEN MedianTwice(f.rows, "log_n_events") ELSE <<>>
        cnt(r) == Below(r["total_files"], mc, 3)
        qa(r)  == Below(r["img_quality_mean"], mq, 4)
        la(r)  == Below(r["log_n_events"], ml, 3)
        newcols == f.cols \cup {"count_anomaly", "any_anomaly"}
                      \cup (IF has_q THEN {"quality_anomaly"} ELSE {})
                      \cup (IF has_l THEN {"log_anomaly"} ELSE {})
    IN  [cols |-> newcols,
         rows |-> [i \in 1..Len(f.rows) |->
                     [c \in newcols |->
                        CASE c = "count_anomaly"   -> cnt(f.rows[i])
                          [] c = "quality_anomaly" -> qa(f.rows[i])
                          [] c = "log_anomaly"     -> la(f.rows[i])
                          [] c = "any_anomaly"     ->
                                \/ df_get(TRUE, cnt(f.rows[i]))
                                \/ df_get(has_q, qa(f.rows[i]))
                                \/ df_get(has_l, la(f.rows[i]))
                          [] OTHER -> f.rows[i][c]]]]

\* join_audio_quality_and_sensor_daily.py:54-63
add_sensor_flags(f) ==
    LET newcols == f.cols \cup {"sensor_missing", "sensor_present",
                                "flag_capture_failure_candidate"}
    IN  [cols |-> newcols,
         rows |-> [i \in 1..Len(f.rows) |->
                     [c \in newcols |->
                        CASE c = "sensor_missing" -> f.rows[i]["n_events"] = <<>>
                          [] c = "sensor_present" -> f.rows[i]["n_events"] # <<>>
                          [] c = "flag_capture_failure_candidate" ->
                                /\ f.rows[i]["dba_mean"] # <<>>
                                /\ f.rows[i]["n_audio"] # <<>>
                                /\ f.rows[i]["n_audio"][1] <= 2
                                /\ f.rows[i]["dba_mean"][1] >= 75
                          [] OTHER -> f.rows[i][c]]]]

(***************************************************************************)
(* Inputs of the joins.  The date cells of daily_join's tables parse; a    *)
(* table has at least one row.                                             *)
(***************************************************************************)
MaxJoinRows == 3      \* rows of the primary table of a join

AQ_COLS == {"date", "n_audio", "rms_dbfs_mean"}

SENSOR_COLS == {"date", "snd_lvl_mean", "dba_mean", "dba_p90", "n_events"}

COUNT_COLS == {"date", "total_files"}

\* The columns image_quality_daily.py:50-63 writes.
IMAGE_DAILY_COLS ==
    {"date", "n_images", "blur_mean", "blur_p10", "brightness_mean",
     "contrast_mean", "file_size_mean"}

\* Columns of logs_daily_summary.py:84-101 (the other *_mean columns are
\* carried through the join like log_probs_mean).
LOGS_DAILY_COLS == {"date", "log_n_events", "log_probs_mean"}

D4 == DateName(2024, 6, 4)
D5 == DateName(2024, 6, 5)

Table(cs, rs) == [exists |-> TRUE, cols |-> cs, rows |-> rs]

\* The same table without the columns outside cols.
Restrict(t, cols) ==
    [exists |-> t.exists, cols |-> t.cols \cap cols,
     rows |-> [i \in 1..Len(t.rows) |-> [c \in t.cols \cap cols |-> t.rows[i][c]]]]

RECURSIVE SeqsUpTo(_, _)
SeqsUpTo(pool, k) ==
    IF k = 0 THEN {<<>>}
    ELSE LET T == SeqsUpTo(pool, k - 1)
         IN  T \cup {Append(t, r) : t \in T, r \in pool}

AqRow(d, n) == [date |-> d, n_audio |-> Num(n), rms_dbfs_mean |-> Num(5)]

AqPool ==
    {AqRow(D1, 1), AqRow(D2, 1), AqRow(D3, 5), AqRow(<<"x">>, 1)}

\* Tables of the audio quality: the rows of the pool, tables whose dates are
\* bare digits, and one whose counts are no numbers.
AqTables ==
    {Table(AQ_COLS, t) : t \in SeqsUpTo(AqPool, MaxJoinRows) \ {<<>>}}
    \cup {NoTable,
          Table(AQ_COLS, <<AqRow(Compact1, 1), AqRow(Compact2, 1)>>),
          Table(AQ_COLS, <<AqRow(Compact2, 1)>>),
          Table(AQ_COLS, <<AqRow(Compact1, 1), AqRow(D2, 1)>>),
          Table(AQ_COLS, <<[date |-> D1, n_audio |-> TextCell,
                            rms_dbfs_mean |-> Num(5)]>>)}

SensorRow(d, dba, ne) ==
    [date |-> d, snd_lvl_mean |-> Blank, dba_mean |-> dba, dba_p90 |-> dba,
     n_events |-> ne]

SensorPool ==
    {SensorRow(D1, Num(80), Num(3)), SensorRow(D3, Num(70), Num(3)),
     SensorRow(D1, Blank, Blank), SensorRow(D2, Num(80), TextCell),
     SensorRow(<<"x">>, Num(80), Num(3))}

SensorTables ==
    LET full == {Table(SENSOR_COLS, t) : t \in SeqsUpTo(SensorPool, 2) \ {<<>>}}
                    \cup {Table(SENSOR_COLS, <<SensorRow(Compact2, Num(80), Num(3))>>),
                          Table(SENSOR_COLS, <<SensorRow(Compact2, Num(80), Num(3)),
                                               SensorRow(D2, Num(70), Num(3))>>)}
    IN  full \cup {Restrict(t, SENSOR_COLS \ {"n_events"}) : t \in full} \cup {NoTable}

CountRow(d, n) == [date |-> d, total_files |-> n]

CountPool ==
    {CountRow(D1, Num(10)), CountRow(D2, Num(10)),
     CountRow(D3, Num(2)), CountRow(D3, Num(3))}

CountTables ==
    {Table(COUNT_COLS, t) : t \in SeqsUpTo(CountPool, MaxJoinRows) \ {<<>>}}
    \cup {NoTable,
          Table({"total_files"}, <<[total_files |-> Num(10)]>>),
          Table(COUNT_COLS, <<CountRow(Compact1, Num(10)), CountRow(Compact2, Num(1))>>),
          Table(COUNT_COLS, <<CountRow(D1, TextCell), CountRow(D2, Num(3))>>),
          Table({"date", "n_files"}, <<[date |-> D1, n_files |-> Num(10)]>>)}

ImageDailyRow(d) ==
    [c \in IMAGE_DAILY_COLS |-> IF c = "date" THEN d ELSE Num(7)]

QualityTables ==
    {Table(IMAGE_DAILY_COLS, <<ImageDailyRow(D1)>>),
     Table(IMAGE_DAILY_COLS, <<ImageDailyRow(D4)>>),
     Table({"date", "img_quality_mean"},
           <<[date |-> D1, img_quality_mean |-> Num(10)],
             [date |-> D2, img_quality_mean |-> Num(2)]>>),
     Table({"date", "img_quality_mean", "log_probs_mean"},
           <<[date |-> D2, img_quality_mean |-> Num(10), log_probs_mean |-> Num(4)]>>),
     Table({"date", "img_quality_mean"},
           <<[date |-> Compact2, img_quality_mean |-> Num(10)]>>),
     Restrict(Table(IMAGE_DAILY_COLS, <<ImageDailyRow(D1)>>),
              IMAGE_DAILY_COLS \ {"date"}),
     NoTable}

LogsRow(d, n) == [date |-> d, log_n_events |-> n, log_probs_mean |-> Num(9)]

LogsTables ==
    {Table(LOGS_DAILY_COLS, <<LogsRow(D1, Num(10)), LogsRow(D2, Num(1))>>),
     Table(LOGS_DAILY_COLS, <<LogsRow(D5, Num(10))>>),
     Table(LOGS_DAILY_COLS, <<LogsRow(Text(D1, T10), Num(10))>>),
     Table(LOGS_DAILY_COLS, <<LogsRow(D1, Num(10)), LogsRow(D1, Num(3))>>),
     Table(LOGS_DAILY_COLS, <<LogsRow(Compact1, Num(10))>>),
     Restrict(Table(LOGS_DAILY_COLS, <<LogsRow(D1, Num(10))>>),
              {"date", "log_probs_mean"}),
     Restrict(Table(LOGS_DAILY_COLS, <<LogsRow(D1, Num(10))>>),
              {"log_n_events", "log_probs_mean"}),
     NoTable}

OldJoined == Table({"date"}, <<[date |-> [day |-> 20230101, tod |-> 0]]>>)

OldCorr == [exists |-> TRUE, cols |-> {"old"}]

InitJoin ==
    /\ prog \in JoinScripts
    /\ pandas \in PandasParsers
    /\ IF prog = "join_audio_quality_and_sensor_daily"
       THEN \E a \in AqTables, b \in SensorTables :
                join_in = [a |-> a, b |-> b, c |-> NoTable]
       ELSE \E a \in CountTables, b \in QualityTables, c \in LogsTables :
                join_in = [a |-> a, b |-> b, c |-> c]
    /\ joined = [cols |-> {}, rows |-> <<>>]
    /\ \/ join_out = NoTable /\ corr_out = NoCorr
       \/ join_out = OldJoined /\ corr_out = OldCorr
    /\ join_err = "none"
    /\ join_pc = "start"
    /\ ScanIdle
    /\ AggIdle
    /\ PoolIdle
    /\ FlatIdle
    /\ ExIdle
    /\ DsIdle
    /\ LateIdle

\* daily_join.py:27-37: load_csv raises when the file or its date column is
\* missing (LoadFails_FileOnly: variant without the test of the column)
LoadFails_FileOnly(t) == ~ t.exists

LoadFails(t) == ~ t.exists \/ "date" \notin t.cols

\* What stops the loading, "none" when nothing does.
\* join_audio_quality_and_sensor_daily.py:24-38: read both tables ("file":
\* read_csv raises on a missing file), parse the dates ("date": KeyError),
\* assert that none is invalid ("bad_date").  daily_join.py:82-88: load the
\* three tables in turn, then raise when daily_counts has no total_files.
RECURSIVE FirstLoadError(_)
\* Variant of FirstLoadError that reads a missing file as a table without
\* rows and columns.
FirstLoadError_MissingAsEmpty(tables) ==
    IF tables = <<>> THEN "none"
    ELSE IF Head(tables).exists /\ LoadFails(Head(tables)) THEN "date"
    ELSE FirstLoadError(Tail(tables))

FirstLoadError(tables) ==
    IF tables = <<>> THEN "none"
    ELSE IF ~ Head(tables).exists THEN "file"
    ELSE IF LoadFails(Head(tables)) THEN "date"
    ELSE FirstLoadError(Tail(tables))

JoinLoadError(script, in) ==
    IF script = "join_audio_quality_and_sensor_daily"
    THEN IF ~ in.a.exists \/ ~ in.b.exists THEN "file"
         ELSE IF ~ {"date"} \subseteq (in.a.cols \cap in.b.cols) THEN "date"
         ELSE IF \/ HasBadDate(LoadTable(in.a, {}, pandas))
                 \/ HasBadDate(LoadTable(in.b, {}, pandas)) THEN "bad_date"
         ELSE "none"
    ELSE IF FirstLoadError(<<in.a, in.b, in.c>>) # "none"
         THEN FirstLoadError(<<in.a, in.b, in.c>>)
         ELSE IF "total_files" \notin in.a.cols THEN "total_files"
         ELSE "none"

JoinLoad ==
    /\ prog \in JoinScripts
    /\ join_pc = "start"
    /\ join_err' = JoinLoadError(prog, join_in)
    /\ join_pc' = IF join_err' = "none" THEN "loaded" ELSE "failed"
    /\ UNCHANGED <<prog, pandas, join_in, joined, join_out, corr_out, scanVars, aggVars,
                   poolVars, flatVars, exVars, dsVars,
                   lateVars>>

\* join_audio_quality_and_sensor_daily.py:43-51, daily_join.py:93-99
JoinMerge ==
    /\ prog \in JoinScripts
    /\ join_pc = "loaded"
    /\ joined' =
         IF prog = "join_audio_quality_and_sensor_daily"
         THEN [cols |-> MergedCols(join_in.a.cols, join_in.b.cols),
               rows |-> LeftMerge(LoadTable(join_in.a, {}, pandas), join_in.a.cols,
                                  LoadTable(join_in.b, SENSOR_NUMERIC, pandas),
                                  join_in.b.cols)]
         ELSE LET ab == OuterMerge(LoadTable(join_in.a, {}, pandas), join_in.a.cols,
                                   LoadTable(join_in.b, {}, pandas), join_in.b.cols)
              IN  [cols |-> MergedCols(MergedCols(join_in.a.cols, join_in.b.cols),
                                       join_in.c.cols),
                   rows |-> OuterMerge(ab, MergedCols(join_in.a.cols, join_in.b.cols),
                                       LoadTable(join_in.c, {}, pandas), join_in.c.cols)]
    /\ join_pc' = "merged"
    /\ UNCHANGED <<prog, pandas, join_in, join_out, corr_out, join_err, scanVars, aggVars,
                   poolVars, flatVars, exVars, dsVars,
                   lateVars>>

\* What stops the flags, "none" when nothing does.
\* join_audio_quality_and_sensor_daily.py:54-63: joined["n_events"] raises
\* KeyError when the merged table has no such column, joined.get("dba_mean")
\* is None without the column and None.notna() raises AttributeError,
\* joined["n_audio"] raises KeyError, and comparing a column of texts with a
\* number raises TypeError.  daily_join.py:49-59: df["total_files"] raises
\* KeyError when the merge has renamed the column, and the median of a
\* column of texts raises TypeError.
JoinFlagsError(script, f) ==
    IF script = "join_audio_quality_and_sensor_daily"
    THEN IF "n_events" \notin f.cols THEN "n_events"
         ELSE IF "dba_mean" \notin f.cols THEN "AttributeError"
         ELSE IF "n_audio" \notin f.cols THEN "KeyError"
         ELSE IF HoldsText(f.rows, "n_audio") \/ HoldsText(f.rows, "dba_mean")
         THEN "TypeError"
         ELSE "none"
    ELSE IF "total_files" \notin f.cols THEN "KeyError"
         ELSE IF \E c \in {"total_files", "img_quality_mean", "log_n_events"} \cap f.cols :
                    HoldsText(f.rows, c)
         THEN "TypeError"
         ELSE "none"

\* join_audio_quality_and_sensor_daily.py:54-63, daily_join.py:102-103
JoinFlags ==
    /\ prog \in JoinScripts
    /\ join_pc = "merged"
    /\ IF JoinFlagsError(prog, joined) = "none"
       THEN /\ joined' = IF prog = "join_audio_quality_and_sensor_daily"
                         THEN add_sensor_flags(joined)
                         ELSE add_anomaly_flags(joined)
            /\ join_pc' = "flagged"
            /\ join_err' = join_err
       ELSE /\ joined' = joined
            /\ join_pc' = "failed"
            /\ join_err' = JoinFlagsError(prog, joined)
    /\ UNCHANGED <<prog, pandas, join_in, join_out, corr_out, scanVars, aggVars, poolVars,
                   flatVars, exVars, dsVars,
                   lateVars>>

\* daily_join.py:107-108: the labels of the correlation matrix are the
\* numeric columns of the frame, neither the dates nor the boolean flags nor
\* a column of texts.
NumericCols(f) ==
    {c \in f.cols \ {"date", "count_anomaly", "quality_anomaly", "log_anomaly",
                     "any_anomaly"} : ~ HoldsText(f.rows, c)}

\* join_audio_quality_and_sensor_daily.py:68-69, daily_join.py:106-117 (the
\* correlation matrix is computed from the frame and written to its own
\* file in the same step)
JoinWrite ==
    /\ prog \in JoinScripts
    /\ join_pc = "flagged"
    /\ join_out' = [exists |-> TRUE, cols |-> joined.cols, rows |-> joined.rows]
    /\ corr_out' = IF prog = "daily_join"
                   THEN [exists |-> TRUE, cols |-> NumericCols(joined)]
                   ELSE corr_out
    /\ join_pc' = "done"
    /\ UNCHANGED <<prog, pandas, join_in, joined, join_err, scanVars, aggVars, poolVars,
                   flatVars, exVars, dsVars,
                   lateVars>>

NextJoin == JoinLoad \/ JoinMerge \/ JoinFlags \/ JoinWrite

SpecJoin == InitJoin /\ [][NextJoin]_vars

(***************************************************************************)
(* Properties of the joins                                                 *)
(***************************************************************************)
AudioJoinDone == prog = "join_audio_quality_and_sensor_daily" /\ join_pc = "done"

DailyJoinDone == prog = "daily_join" /\ join_pc = "done"

\* The dates of a table on disk as the join loads them, row by row.
DatesOfTable(t) ==
    LET dates == read_csv_to_datetime([i \in 1..Len(t.rows) |-> t.rows[i]["date"]],
                                      pandas)
    IN  [i \in 1..Len(t.rows) |-> Normalize(dates[i])]

DateSet(t) == {DatesOfTable(t)[i] : i \in 1..Len(t.rows)}

HasUniqueDates(t) == Cardinality(DateSet(t)) = Len(t.rows)

\* C15 (as claimed): when both tables have unique dates, the joined table
\* has one row per row of the primary table, in its order and with its
\* date, hence no date the primary lacks, and sensor_missing is True on
\* exactly the rows whose date has no row in the secondary table.
C15_LeftJoinAndSensorMissing ==
    (AudioJoinDone /\ HasUniqueDates(join_in.a) /\ HasUniqueDates(join_in.b)) =>
        /\ Len(join_out.rows) = Len(join_in.a.rows)
        /\ \A i \in 1..Len(join_out.rows) :
              /\ join_out.rows[i]["date"] = DatesOfTable(join_in.a)[i]
              /\ join_out.rows[i]["sensor_missing"]
                     <=> join_out.rows[i]["date"] \notin DateSet(join_in.b)

\* What the code computes: the left join as claimed, and sensor_missing True
\* where no secondary row of that date has a numeric n_events.
SensorMissingIsBlankEventCount ==
    (AudioJoinDone /\ HasUniqueDates(join_in.a) /\ HasUniqueDates(join_in.b)) =>
        /\ Len(join_out.rows) = Len(join_in.a.rows)
        /\ \A i \in 1..Len(join_out.rows) :
              /\ join_out.rows[i]["date"] = DatesOfTable(join_in.a)[i]
              /\ join_out.rows[i]["sensor_missing"]
                     <=> ~ \E j \in 1..Len(join_in.b.rows) :
                             /\ DatesOfTable(join_in.b)[j] = join_out.rows[i]["date"]
                             /\ join_in.b.rows[j]["n_events"].t = "num"

\* C16 (as claimed): joining the tables the pipeline's own aggregators write
\* (image_quality_daily's columns, a logs table with log_n_events) gives a
\* table with the four anomaly columns.
C16_AllAnomalyColumnsPresent ==
    (DailyJoinDone /\ join_in.b.cols = IMAGE_DAILY_COLS
                   /\ "log_n_events" \in join_in.c.cols) =>
        {"count_anomaly", "quality_anomaly", "log_anomaly", "any_anomaly"}
            \subseteq join_out.cols

\* The columns the code does add for those inputs.
AnomalyColumnsWithoutQuality ==
    (DailyJoinDone /\ join_in.b.cols = IMAGE_DAILY_COLS
                   /\ "log_n_events" \in join_in.c.cols) =>
        join_out.cols \cap {"count_anomaly", "quality_anomaly", "log_anomaly",
                            "any_anomaly"}
            = {"count_anomaly", "log_anomaly", "any_anomaly"}

\* The present values of a column of the written table.
OutValues(col) ==
    {i \in 1..Len(join_out.rows) : join_out.rows[i][col] # <<>>}

\* The value of rank k (1 = smallest) among the present values of col.
OutAtRank(col, k) ==
    LET I == OutValues(col)
        v(i) == join_out.rows[i][col][1]
    IN  v(CHOOSE i \in I :
              /\ Cardinality({j \in I : v(j) < v(i)}) < k
              /\ k <= Cardinality({j \in I : v(j) <= v(i)}))

\* v < 0.3 * median of the present values of col in the written table.
BelowThreeTenthsOfMedian(cell, col) ==
    LET n == Cardinality(OutValues(col))
    IN  /\ cell # <<>>
        /\ n > 0
        /\ 20 * cell[1] < 3 * (OutAtRank(col, (n + 1) \div 2)
                                  + OutAtRank(col, (n \div 2) + 1))

\* C17: in the table daily_join writes, count_anomaly is True exactly on the
\* rows whose total_files is present and strictly below 0.3 times the median
\* of the total_files present in that same table, and log_anomaly likewise
\* with log_n_events; a row whose value is missing is not flagged.
C17_AnomalyBelowMedianFraction ==
    DailyJoinDone =>
        \A i \in 1..Len(join_out.rows) :
            LET r == join_out.rows[i]
            IN  /\ r["count_anomaly"]
                      <=> BelowThreeTenthsOfMedian(r["total_files"], "total_files")
                /\ r["total_files"] = <<>> => ~ r["count_anomaly"]
                /\ "log_n_events" \in join_out.cols =>
                      /\ r["log_anomaly"]
                            <=> BelowThreeTenthsOfMedian(r["log_n_events"], "log_n_events")
                      /\ r["log_n_events"] = <<>> => ~ r["log_anomaly"]

\* C17 witness: total_files 10, 10, 2 and a date known from the logs only:
\* the row with 2 is flagged (2 < 3), the row without total_files is not.
C17_Witness ==
    /\ DailyJoinDone
    /\ Len(join_out.rows) = 4
    /\ \E i \in 1..4 : /\ join_out.rows[i]["total_files"] = <<2>>
                       /\ join_out.rows[i]["count_anomaly"]
    /\ \E i \in 1..4 : /\ join_out.rows[i]["total_files"] = <<10>>
                       /\ ~ join_out.rows[i]["count_anomaly"]
    /\ \E i \in 1..4 : /\ join_out.rows[i]["total_files"] = <<>>
                       /\ ~ join_out.rows[i]["count_anomaly"]

ANOMALY_FLAGS == {"count_anomaly", "quality_anomaly", "log_anomaly"}

\* C28: in every table returned by add_anomaly_flags, any_anomaly is True
\* on a row exactly when at least one of the anomaly flags that exist in the
\* table (count_anomaly, quality_anomaly, log_anomaly) is True on that row;
\* a flag whose source column is absent counts as False and does not cause
\* an error: daily_join fails while it loads its inputs, or in the flags on
\* a merged table without total_files or with a source column that holds
\* text, never on an absent img_quality_mean or log_n_events.
C28_AnyAnomalyIsOrOfExistingFlags ==
    prog = "daily_join" =>
        /\ join_pc \in {"flagged", "done"} =>
              /\ "any_anomaly" \in joined.cols
              /\ \A i \in 1..Len(joined.rows) :
                    joined.rows[i]["any_anomaly"]
                        <=> \E c \in ANOMALY_FLAGS \cap joined.cols : joined.rows[i][c]
        /\ join_pc = "failed" =>
              \/ join_err \in {"file", "date", "total_files"}
              \/ "total_files" \notin joined.cols
              \/ \E c \in {"total_files", "img_quality_mean", "log_n_events"}
                              \cap joined.cols : HoldsText(joined.rows, c)

\* C28 witness: the frame has no quality flag and no log flag; one row is
\* anomalous by its count and another is not anomalous at all.
C28_Witness ==
    /\ prog = "daily_join" /\ join_pc = "flagged"
    /\ ANOMALY_FLAGS \cap joined.cols = {"count_anomaly"}
    /\ \E i \in 1..Len(joined.rows) : joined.rows[i]["any_anomaly"]
    /\ \E i \in 1..Len(joined.rows) : ~ joined.rows[i]["any_anomaly"]

\* The frame has the three flags, and a row is anomalous although its
\* count is not.
AnomalousWithoutCountAnomaly ==
    /\ prog = "daily_join" /\ join_pc = "flagged"
    /\ ANOMALY_FLAGS \subseteq joined.cols
    /\ \E i \in 1..Len(joined.rows) :
          /\ joined.rows[i]["any_anomaly"] /\ joined.rows[i]["log_anomaly"]
          /\ ~ joined.rows[i]["count_anomaly"]

\* The capture-failure heuristic on a written row.
HighLevelFewRecordings(r) ==
    /\ r["dba_mean"] # <<>> /\ r["dba_mean"][1] >= 75
    /\ r["n_audio"] # <<>> /\ r["n_audio"][1] <= 2

\* C29: in the audio quality/sensor join, on every output row
\* flag_capture_failure_candidate is True exactly when dba_mean is present,
\* dba_mean >= 75 and n_audio <= 2; sensor_present is always the negation of
\* sensor_missing; and no row with sensor_missing True is flagged as a
\* capture-failure candidate.
C29_CaptureFailureFlag ==
    AudioJoinDone =>
        \A i \in 1..Len(join_out.rows) :
            LET r == join_out.rows[i]
            IN  /\ r["flag_capture_failure_candidate"] <=> HighLevelFewRecordings(r)
                /\ r["sensor_present"] <=> ~ r["sensor_missing"]
                /\ r["sensor_missing"] => ~ r["flag_capture_failure_candidate"]

\* What the code ensures: the heuristic and the negation as claimed; a row
\* without a numeric n_events is flagged like any other.
CaptureFailureFlagIgnoresSensorMissing ==
    AudioJoinDone =>
        \A i \in 1..Len(join_out.rows) :
            LET r == join_out.rows[i]
            IN  /\ r["flag_capture_failure_candidate"] <=> HighLevelFewRecordings(r)
                /\ r["sensor_present"] <=> ~ r["sensor_missing"]
                /\ r["sensor_missing"] <=> r["n_events"] = <<>>

\* A written row is flagged although its sensor data counts as missing.
FlaggedWithoutEventCount ==
    /\ AudioJoinDone
    /\ \E i \in 1..Len(join_out.rows) :
          /\ join_out.rows[i]["sensor_missing"]
          /\ join_out.rows[i]["flag_capture_failure_candidate"]
          /\ join_out.rows[i]["dba_mean"] = <<80>>

\* C18: the table daily_join writes holds exactly the dates of its three
\* inputs (the dates as load_csv reads them: a column of bare digits is a
\* column of numbers and its dates are days of 1970), in ascending order,
\* one row per date when no input repeats a date.
C18_OuterJoinKeepsEveryDate ==
    DailyJoinDone =>
        LET out == join_out.rows
            all == DateSet(join_in.a) \cup DateSet(join_in.b) \cup DateSet(join_in.c)
        IN  /\ {out[i]["date"] : i \in 1..Len(out)} = all
            /\ \A i, j \in 1..Len(out) :
                  i < j => out[i]["date"].day <= out[j]["date"].day
            /\ (HasUniqueDates(join_in.a) /\ HasUniqueDates(join_in.b)
                    /\ HasUniqueDates(join_in.c)) =>
                  /\ Len(out) = Cardinality(all)
                  /\ \A i, j \in 1..Len(out) :
                        i < j => out[i]["date"].day < out[j]["date"].day

\* C18 witness: three inputs with unique dates, one date known from the
\* image table only and one from the logs only; the output has them all.
C18_Witness ==
    /\ DailyJoinDone
    /\ HasUniqueDates(join_in.a) /\ HasUniqueDates(join_in.b) /\ HasUniqueDates(join_in.c)
    /\ DateSet(join_in.b) \ (DateSet(join_in.a) \cup DateSet(join_in.c)) # {}
    /\ DateSet(join_in.c) \ (DateSet(join_in.a) \cup DateSet(join_in.b)) # {}
    /\ Len(join_in.a.rows) = 3
    /\ Len(join_out.rows) = 5

(***************************************************************************)
(* audio_amplitude_scan_sampled.py and parse_traffic_sound_json.py.        *)
(*                                                                         *)
(* The folder read (AUDIO_ROOT, LOG_DIR) is [exists, entries]; an entry is *)
(* [isdir, items]: the files of a day folder in directory order, or the    *)
(* lines of a log file.  An audio file is [name, loads, samples, rms,      *)
(* peak]: whether librosa.load succeeds, how many samples it returns and   *)
(* the amplitudes numpy computes.  A fraction is <<num, den>> in lowest    *)
(* terms, NaN is <<>>.                                                     *)
(*                                                                         *)
(* random.sample returns the files it keeps in an order of its own, and    *)
(* the loop takes them, and stops at MAX_TOTAL_FILES rows, in that order:  *)
(* ex_rows holds the rows in the order they were appended.  The seed is    *)
(* fixed (line 43) but what random.sample draws from it depends on the     *)
(* Python release, so every sample in every order is an outcome.           *)
(***************************************************************************)
ExScripts == {"audio_amplitude_scan_sampled", "parse_traffic_sound_json"}

MAX_FILES_PER_DAY == 25
MAX_TOTAL_FILES == 50000

EndsWith(s, sfx) ==
    Len(s) >= Len(sfx) /\ SubSeq(s, Len(s) - Len(sfx) + 1, Len(s)) = sfx

Frac(n, d) == LET g == GCD(n, d) IN  <<n \div g, d \div g>>

FracAdd(a, b) == Frac(a[1] * b[2] + b[1] * a[2], a[2] * b[2])

RECURSIVE FracSum(_)
FracSum(q) == IF q = <<>> THEN <<0, 1>> ELSE FracAdd(Head(q), FracSum(Tail(q)))

\* The mean of the fractions of q that are not NaN; NaN when there is none.
FracMean(q) ==
    LET with == SelectSeq(q, LAMBDA x : x # <<>>)
        t == FracSum(with)
    IN  IF with = <<>> THEN <<>> ELSE Frac(t[1], t[2] * Len(with))

\* str.split("_")[0]: the text before the first underscore
BeforeUnderscore(s) ==
    LET us == {i \in 1..Len(s) : s[i] = "_"}
    IN  IF us = {} THEN s
        ELSE SubSeq(s, 1, (CHOOSE i \in us : \A j \in us : i <= j) - 1)

\* audio_amplitude_scan_sampled.py:49: the day folders, sorted
DayDirs(root) == SortedStrings({n \in DOMAIN root.entries : root.entries[n].isdir})

\* audio_amplitude_scan_sampled.py:57: glob("*.wav") then glob("*.mp3")
GlobAudio(files) ==
    SelectSeq(files, LAMBDA f : EndsWith(f.name, <<".", "w", "a", "v">>))
        \o SelectSeq(files, LAMBDA f : EndsWith(f.name, <<".", "m", "p", "3">>))

\* The sequences of k different elements of S.
RECURSIVE Arrangements(_, _)
Arrangements(S, k) ==
    IF k = 0 THEN {<<>>}
    ELSE UNION { { Append(q, i) : i \in S \ {q[j] : j \in 1..Len(q)} } :
                   q \in Arrangements(S, k - 1) }

\* audio_amplitude_scan_sampled.py:62-63: the lists of files the inner loop
\* can be given: the listing itself, or with more than k files in it what
\* random.sample(files, k) can return, k of them in any order.
Samples(files, k) ==
    IF Len(files) <= k THEN {files}
    ELSE { [j \in 1..k |-> files[a[j]]] : a \in Arrangements(1..Len(files), k) }

\* Variant of crest_factor that divides whatever rms is: <<peak, 0>> stands
\* for the infinity or the error of a division by zero.
crest_factor_Unguarded(peak, rms) ==
    IF rms > 0 THEN Frac(peak, rms) ELSE <<peak, 0>>

\* audio_amplitude_scan_sampled.py:85: peak / rms if rms > 0 else np.nan
crest_factor(peak, rms) ==
    IF rms > 0 THEN Frac(peak, rms) ELSE <<>>

\* audio_amplitude_scan_sampled.py:66-75: the file gives a row when
\* librosa.load succeeds and returns samples
GivesRow(fp) == fp.loads /\ fp.samples > 0

\* audio_amplitude_scan_sampled.py:65-94: the rows after the loop went
\* through the list files; it stops once cap (MAX_TOTAL_FILES) rows are held
RECURSIVE AmplitudeRows(_, _, _, _)
AmplitudeRows(files, date_str, acc, cap) ==
    IF files = <<>> THEN acc
    ELSE LET fp == Head(files)
             acc2 == IF GivesRow(fp)
                     THEN Append(acc,
                            [file |-> fp.name, date |-> date_str,
                             rms_amplitude |-> fp.rms,
                             peak_amplitude |-> fp.peak,
                             crest_factor |-> crest_factor(fp.peak, fp.rms)])
                     ELSE acc
         IN  IF Len(acc2) >= cap THEN acc2
             ELSE AmplitudeRows(Tail(files), date_str, acc2, cap)

\* The row lists the files of a sample give, cut at the cap, as lists of
\* indices of good (the files of the folder that give a row): a sample of k
\* files holds between k - others and k of them (others: the files that
\* give no row), in any order, and the loop stops after room of them.
RowOrders(good, others, k, room) ==
    UNION { Arrangements(1..good, Min(n, room)) :
              n \in (IF k > others THEN k - others ELSE 0)..Min(k, good) }

\* audio_amplitude_scan_sampled.py:57-97: the row lists the script can hold
\* after a day folder, for every list of Samples(files, k):
\* { AmplitudeRows(s, date_str, acc, cap) : s \in Samples(files, k) }, which
\* for a folder of more than k files is computed from the files that give a
\* row alone (the two are compared in FolderRowsAreTheRowsOfSamples).
FolderRows(files, date_str, acc, k, cap) ==
    IF Len(files) <= k THEN {AmplitudeRows(files, date_str, acc, cap)}
    ELSE LET good == SelectSeq(files, GivesRow)
         IN  { AmplitudeRows([j \in 1..Len(a) |-> good[a[j]]], date_str, acc, cap) :
                 a \in RowOrders(Len(good), Len(files) - Len(good), k, cap - Len(acc)) }

\* pd.to_datetime(format="%Y-%m-%d", errors="coerce") of one cell that
\* holds "YYYY-MM-DD" or a text that is no date in any form
ParseDateYmd(s) ==
    LET d == strptime_cell(s, "%Y-%m-%d")
    IN  IF InTimestampBounds(d) THEN d ELSE NaT

\* audio_amplitude_scan_sampled.py:108-109: parse the dates, drop the rows
\* whose date is NaT
AmplitudeFrame(rs) ==
    LET parsedrows == [i \in 1..Len(rs) |-> [rs[i] EXCEPT !.date = ParseDateYmd(@)]]
    IN  SelectSeq(parsedrows, LAMBDA r : r.date # NaT)

\* parse_traffic_sound_json.py:41: sorted(LOG_DIR.glob("traffic.txt*")); a
\* folder that does not exist has no such file
SoundLogFiles(root) ==
    IF ~ root.exists THEN <<>> ELSE iter_log_files(root.entries)

\* np.percentile(v, 90) with linear interpolation, as a fraction
Percentile90(v) ==
    LET sv == SortedValues(v)
        k  == 9 * (Len(sv) - 1)
        lo == (k \div 10) + 1
        fr == k % 10
    IN  IF fr = 0 THEN <<sv[lo], 1>>
        ELSE Frac(10 * sv[lo] + fr * (sv[lo + 1] - sv[lo]), 10)

RECURSIVE SumSeq(_)
SumSeq(q) == IF q = <<>> THEN 0 ELSE Head(q) + SumSeq(Tail(q))

\* parse_traffic_sound_json.py:50-74: the body of the loop for one line.  A
\* line is [json, isdict, snd, dto]: snd is [t, snd_lvl, dba] with t
\* "absent", "empty" ({}), "dict" or "other" (a true value that is no
\* dict), dba the list at snd.res.dba (<<>> when missing or empty); dto is
\* [t, s] with t "absent", "str" or "num".  Any exception skips the line.
\* A line with the field utf8 holds bytes that are not UTF-8 and is never
\* handed to the body.
SoundRow(line) ==
    IF \/ ~ line.json
       \/ ~ line.isdict
       \/ line.snd.t \in {"absent", "empty"}
       \/ line.dto.t = "absent"
       \/ line.dto.t = "str" /\ line.dto.s = <<>>
       \/ line.snd.t = "other"
       \/ line.snd.dba = <<>>
       \/ line.dto.t = "num"
    THEN <<>>
    ELSE << [date |-> Prefix(line.dto.s, 10),
             snd_lvl |-> line.snd.snd_lvl,
             dba_mean |-> Frac(SumSeq(line.snd.dba), Len(line.snd.dba)),
             dba_p90 |-> Percentile90(line.snd.dba)] >>

RECURSIVE SoundRows(_, _)
SoundRows(lines, acc) ==
    IF lines = <<>> THEN acc
    ELSE SoundRows(Tail(lines), acc \o SoundRow(Head(lines)))

IsUndecodable(line) == "utf8" \in DOMAIN line

\* parse_traffic_sound_json.py:47-48: open() raises IsADirectoryError on a
\* directory, and "for line in f", outside the try block, raises
\* UnicodeDecodeError on a line that is not UTF-8; either ends the run
\* before anything is written.
ReadRaises(entry) ==
    \/ entry.isdir
    \/ \E i \in 1..Len(entry.items) : IsUndecodable(entry.items[i])

\* parse_traffic_sound_json.py:84-96: parse the dates, drop NaT, group by
\* date (ascending keys) and aggregate
SoundDaily(rs, parser) ==
    LET dates == to_datetime([i \in 1..Len(rs) |-> rs[i].date], parser)
        fr == SelectSeq([i \in 1..Len(rs) |-> [rs[i] EXCEPT !.date = dates[i]]],
                        LAMBDA r : r.date # NaT)
        keys == SortedDates({fr[i].date : i \in 1..Len(fr)})
        grp(k) == SelectSeq(fr, LAMBDA r : r.date = k)
        col(g, c) == [i \in 1..Len(g) |-> g[i][c]]
    IN  [n \in 1..Len(keys) |->
            LET g == grp(keys[n])
            IN  [date |-> keys[n],
                 snd_lvl_mean |-> FracMean([i \in 1..Len(g) |->
                                     IF g[i].snd_lvl = <<>> THEN <<>>
                                     ELSE <<g[i].snd_lvl[1], 1>>]),
                 dba_mean |-> FracMean(col(g, "dba_mean")),
                 dba_p90 |-> FracMean(col(g, "dba_p90")),
                 n_events |-> Len(g)]]

\* Number of files in the growing day folder, of lines in the growing log.
MaxExItems == 2

Wav(name, loads, samples, rms, peak) ==
    [name |-> name, loads |-> loads, samples |-> samples, rms |-> rms, peak |-> peak]

OkWav     == Wav(<<"a", ".", "w", "a", "v">>, TRUE, 2, 1, 2)
SilentMp3 == Wav(<<"b", ".", "m", "p", "3">>, TRUE, 1, 0, 0)
BadWav    == Wav(<<"c", ".", "w", "a", "v">>, FALSE, 0, 0, 0)
EmptyWav  == Wav(<<"d", ".", "w", "a", "v">>, TRUE, 0, 0, 0)
TextFile  == Wav(<<"e", ".", "t", "x", "t">>, TRUE, 2, 1, 2)

WavPool == {OkWav, SilentMp3, BadWav, EmptyWav, TextFile}

Dir(items) == [isdir |-> TRUE, items |-> items]
Plain(items) == [isdir |-> FALSE, items |-> items]

NotADate == <<"x">>

\* None or one entry under the name n, with one of the given contents.
MaybeEntry(n, contents) == { << >> } \cup { n :> c : c \in contents }

\* How many files more than MAX_FILES_PER_DAY a full day folder holds.
MaxOver == 1

\* n files: those at the places in good are f01.wav, f02.wav, ... and
\* load, the others are x01.wav, x02.wav, ... and are no audio that librosa
\* can read.
ManyWavs(n, good) ==
    [i \in 1..n |-> IF i \in good
                    THEN Wav(<<"f">> \o Num2(i) \o <<".", "w", "a", "v">>, TRUE, 2, 1, 2)
                    ELSE Wav(<<"x">> \o Num2(i) \o <<".", "w", "a", "v">>, FALSE, 0, 0, 0)]

\* A day folder of up to MAX_FILES_PER_DAY files that all load.
FullDay(n) == Dir(ManyWavs(n, 1..n))

\* A day folder of more than MAX_FILES_PER_DAY files, of which the first
\* two and the last load.
OverfullDay(n) == Dir(ManyWavs(n, {1, 2, n}))

DayOf(n) == IF n <= MAX_FILES_PER_DAY THEN FullDay(n) ELSE OverfullDay(n)

\* Day folders with about MAX_FILES_PER_DAY files: one folder, and the two
\* folders of one day (high and low quality).
FullDayRoots ==
    { [exists |-> TRUE, entries |-> D1 :> DayOf(n)] :
        n \in (MAX_FILES_PER_DAY - 1)..(MAX_FILES_PER_DAY + MaxOver) }
    \cup { [exists |-> TRUE,
            entries |-> (D1 \o <<"_", "h">>) :> DayOf(n)
                        @@ (D1 \o <<"_", "l">>) :> DayOf(m)] :
             n \in {MAX_FILES_PER_DAY, MAX_FILES_PER_DAY + MaxOver},
             m \in {0, 1, MAX_FILES_PER_DAY} }

\* A day folder of five audio files, three of which give a row.
MixedDayRoot ==
    [exists |-> TRUE,
     entries |-> D2 :> Dir(<<OkWav, SilentMp3, BadWav, EmptyWav,
                             Wav(<<"g", ".", "w", "a", "v">>, TRUE, 4, 2, 3)>>)]

AudioRoots ==
    { [exists |-> TRUE, entries |-> a @@ b @@ c @@ d] :
        a \in MaybeEntry(D1, {Dir(q) : q \in SeqsUpTo(WavPool, MaxExItems)}),
        b \in MaybeEntry(D1 \o <<"_", "h">>, {Dir(<<SilentMp3>>)}),
        c \in MaybeEntry(NotADate, {Dir(<<OkWav>>), Dir(<<BadWav>>)}),
        d \in MaybeEntry(<<"r", "e", "a", "d", "m", "e">>, {Plain(<<>>)}) }
    \cup FullDayRoots \cup {MixedDayRoot}

SoundLine(json, isdict, st, lvl, dba, dt, ds) ==
    [json |-> json, isdict |-> isdict,
     snd |-> [t |-> st, snd_lvl |-> lvl, dba |-> dba],
     dto |-> [t |-> dt, s |-> ds]]

OkSound(d, lvl, dba) == SoundLine(TRUE, TRUE, "dict", lvl, dba, "str", d)

GarbageSound == OkSound(<<"s", "o", "o", "n">>, <<4>>, <<3>>)

\* A line with bytes that are not UTF-8.
UndecodableSound ==
    [json |-> FALSE, isdict |-> FALSE,
     snd |-> [t |-> "absent", snd_lvl |-> <<>>, dba |-> <<>>],
     dto |-> [t |-> "absent", s |-> <<>>], utf8 |-> FALSE]

SoundPool ==
    { OkSound(Text(D1, TimeText(10, 0, 0)), <<4>>, <<3>>),
      OkSound(Text(D1, TimeText(11, 0, 0)), <<>>, <<1, 2>>),
      OkSound(Text(D2, TimeText(9, 30, 0)), <<7>>, <<5, 1, 3>>),
      GarbageSound,
      SoundLine(FALSE, FALSE, "absent", <<>>, <<>>, "absent", <<>>),
      SoundLine(TRUE, FALSE, "absent", <<>>, <<>>, "absent", <<>>),
      SoundLine(TRUE, TRUE, "absent", <<>>, <<>>, "str", D1),
      SoundLine(TRUE, TRUE, "empty", <<>>, <<>>, "str", D1),
      SoundLine(TRUE, TRUE, "other", <<>>, <<>>, "str", D1),
      SoundLine(TRUE, TRUE, "dict", <<4>>, <<>>, "str", D1),
      SoundLine(TRUE, TRUE, "dict", <<4>>, <<3>>, "absent", <<>>),
      SoundLine(TRUE, TRUE, "dict", <<4>>, <<3>>, "str", <<>>),
      SoundLine(TRUE, TRUE, "dict", <<4>>, <<3>>, "num", <<>>) }

\* A log file with a line that is not UTF-8 between two good lines.
BrokenSoundLog ==
    << OkSound(Text(D1, TimeText(10, 0, 0)), <<4>>, <<3>>), UndecodableSound,
       OkSound(Text(D2, TimeText(9, 30, 0)), <<7>>, <<5, 1, 3>>) >>

SoundRoots ==
    { [exists |-> TRUE, entries |-> a @@ b @@ c @@ d] :
        a \in MaybeEntry(TrafficTxt,
                         {Plain(q) : q \in SeqsUpTo(SoundPool, MaxExItems)}
                             \cup {Plain(BrokenSoundLog)}),
        b \in MaybeEntry(TrafficTxt \o <<".", "1">>,
                         {Plain(<<GarbageSound>>),
                          Plain(<<OkSound(Text(D1, TimeText(12, 0, 0)), <<6>>, <<9>>)>>)}),
        c \in MaybeEntry(OtherLog, {Plain(<<GarbageSound>>)}),
        d \in MaybeEntry(TrafficTxt \o <<".", "d">>, {Dir(<<>>)}) }

InitExtract ==
    /\ prog \in ExScripts
    /\ pandas \in PandasParsers
    /\ ex_in \in {NoRoot} \cup (IF prog = "audio_amplitude_scan_sampled"
                                THEN AudioRoots ELSE SoundRoots)
    /\ ex_i = 1
    /\ ex_rows = <<>>
    /\ ex_out = NoFile
    /\ ex_pc = "idle"
    /\ ScanIdle /\ AggIdle /\ PoolIdle /\ FlatIdle /\ JoinIdle /\ DsIdle
    /\ LateIdle

\* The folders or files the loop of the running script goes through.
ExItems ==
    IF prog = "audio_amplitude_scan_sampled" THEN DayDirs(ex_in)
    ELSE SoundLogFiles(ex_in)

\* audio_amplitude_scan_sampled.py:43-49, parse_traffic_sound_json.py:39-41:
\* Path.iterdir() raises when AUDIO_ROOT does not exist.
ExStart ==
    /\ prog \in ExScripts
    /\ ex_pc = "idle"
    /\ ex_pc' = IF prog = "audio_amplitude_scan_sampled" /\ ~ ex_in.exists
                THEN "failed" ELSE "loop"
    /\ UNCHANGED <<prog, pandas, ex_in, ex_i, ex_rows, ex_out,
                   scanVars, aggVars, poolVars, flatVars, joinVars, dsVars,
                   lateVars>>

\* audio_amplitude_scan_sampled.py:52-97, parse_traffic_sound_json.py:44-74:
\* one iteration of the outer loop
ExScan ==
    /\ prog \in ExScripts
    /\ ex_pc = "loop"
    /\ ex_i <= Len(ExItems)
    /\ LET name == ExItems[ex_i]
           items == ex_in.entries[name].items
       IN  IF prog = "audio_amplitude_scan_sampled"
           THEN \E rs \in FolderRows(GlobAudio(items), BeforeUnderscore(name),
                                      ex_rows, MAX_FILES_PER_DAY, MAX_TOTAL_FILES) :
                  /\ ex_rows' = rs
                  /\ ex_i' = IF GlobAudio(items) # <<>> /\ Len(rs) >= MAX_TOTAL_FILES
                             THEN Len(ExItems) + 1 ELSE ex_i + 1
                  /\ ex_pc' = ex_pc
           ELSE IF ReadRaises(ex_in.entries[name])
           THEN /\ ex_pc' = "failed"
                /\ UNCHANGED <<ex_rows, ex_i>>
           ELSE /\ ex_rows' = SoundRows(items, ex_rows)
                /\ ex_i' = ex_i + 1
                /\ ex_pc' = ex_pc
    /\ UNCHANGED <<prog, pandas, ex_in, ex_out,
                   scanVars, aggVars, poolVars, flatVars, joinVars, dsVars,
                   lateVars>>

\* audio_amplitude_scan_sampled.py:102-105, parse_traffic_sound_json.py:76-79:
\* the frame of the rows; an empty frame raises RuntimeError
ExFrame ==
    /\ prog \in ExScripts
    /\ ex_pc = "loop"
    /\ ex_i > Len(ExItems)
    /\ ex_pc' = IF ex_rows = <<>> THEN "failed" ELSE "frame"
    /\ UNCHANGED <<prog, pandas, ex_in, ex_i, ex_rows, ex_out,
                   scanVars, aggVars, poolVars, flatVars, joinVars, dsVars,
                   lateVars>>

\* What the script writes from the rows it holds.
ExOutput(script, rs, parser) ==
    IF script = "audio_amplitude_scan_sampled" THEN AmplitudeFrame(rs)
    ELSE SoundDaily(rs, parser)

\* audio_amplitude_scan_sampled.py:108-112, parse_traffic_sound_json.py:84-99
ExWrite ==
    /\ prog \in ExScripts
    /\ ex_pc = "frame"
    /\ ex_out' = [exists |-> TRUE, rows |-> ExOutput(prog, ex_rows, pandas)]
    /\ ex_pc' = "done"
    /\ UNCHANGED <<prog, pandas, ex_in, ex_i, ex_rows,
                   scanVars, aggVars, poolVars, flatVars, joinVars, dsVars,
                   lateVars>>

NextExtract == ExStart \/ ExScan \/ ExFrame \/ ExWrite

SpecExtract == InitExtract /\ [][NextExtract]_vars

(***************************************************************************)
(* Properties of the two extraction scripts                                *)
(***************************************************************************)
ExEnded == prog \in ExScripts /\ ex_pc \in {"done", "failed"}

\* The rows that remain after the rows with an unparseable date are removed.
UsableRows ==
    LET dates == IF prog = "audio_amplitude_scan_sampled"
                 THEN [i \in 1..Len(ex_rows) |-> ParseDateYmd(ex_rows[i].date)]
                 ELSE to_datetime([i \in 1..Len(ex_rows) |-> ex_rows[i].date],
                                  pandas)
        dated == [i \in 1..Len(ex_rows) |-> [row |-> ex_rows[i], date |-> dates[i]]]
        kept  == SelectSeq(dated, LAMBDA r : r.date # NaT)
    IN  [i \in 1..Len(kept) |-> kept[i].row]

\* C19: in audio_amplitude_scan_sampled and parse_traffic_sound_json, a run
\* in which zero rows remain after filtering, the removal of the rows with
\* an unparseable date included, raises an error and writes no output file;
\* an output file is written only when it holds at least one data row.
C19_NoUsableRowsRaises ==
    /\ (ExEnded /\ UsableRows = <<>>) => (ex_pc = "failed" /\ ~ ex_out.exists)
    /\ (prog \in ExScripts /\ ex_out.exists) => Len(ex_out.rows) >= 1

\* What the scripts ensure: a run that extracted no row at all raises and
\* writes nothing, and a file is written only by a run that extracted rows.
NoExtractedRowsRaises ==
    /\ (ExEnded /\ ex_rows = <<>>) => (ex_pc = "failed" /\ ~ ex_out.exists)
    /\ (prog \in ExScripts /\ ex_out.exists) => (ex_pc = "done" /\ ex_rows # <<>>)
    /\ (prog \in ExScripts /\ ex_pc = "failed") => ~ ex_out.exists

\* The rows of a sequence whose date is d.
RowsOn(rs, d) == Cardinality({i \in 1..Len(rs) : rs[i].date = d})

\* The day folders whose name gives the date text d.
FoldersOf(d) ==
    {n \in DOMAIN ex_in.entries :
        ex_in.entries[n].isdir /\ BeforeUnderscore(n) = d}

AmplitudeRun == prog = "audio_amplitude_scan_sampled"

\* C25: in audio_amplitude_scan_sampled, for every calendar date the output
\* holds at most MAX_FILES_PER_DAY rows with that date, and the number of
\* rows never exceeds MAX_TOTAL_FILES at any point of the scan.
C25_PerDayAndTotalCaps ==
    AmplitudeRun =>
        /\ Len(ex_rows) <= MAX_TOTAL_FILES
        /\ \A i \in 1..Len(ex_out.rows) :
              RowsOn(ex_out.rows, ex_out.rows[i].date) <= MAX_FILES_PER_DAY

\* What the sampling ensures: at most MAX_FILES_PER_DAY rows for each day
\* folder, so for a date at most that many times its number of folders.
PerFolderAndTotalCaps ==
    AmplitudeRun =>
        /\ Len(ex_rows) <= MAX_TOTAL_FILES
        /\ \A i \in 1..Len(ex_rows) :
              RowsOn(ex_rows, ex_rows[i].date)
                  <= MAX_FILES_PER_DAY * Cardinality(FoldersOf(ex_rows[i].date))

\* A folder of more than MAX_FILES_PER_DAY files was sampled and its last
\* file was taken before its first: the rows do not follow the listing.
SampledOutOfListingOrder ==
    /\ AmplitudeRun /\ ex_pc = "done"
    /\ DOMAIN ex_in.entries = {D1}
    /\ Len(ex_in.entries[D1].items) > MAX_FILES_PER_DAY
    /\ Len(ex_out.rows) = 2
    /\ ex_out.rows[1].file = ex_in.entries[D1].items[Len(ex_in.entries[D1].items)].name
    /\ ex_out.rows[2].file = ex_in.entries[D1].items[1].name

\* FolderRows gives the rows of the loop over every list of Samples:
\* compared on the day folders of up to five audio files for samples of 1
\* to 4 files and caps of 1 to 3 rows, from no row and from one row held.
FolderRowsAreTheRowsOfSamples ==
    (AmplitudeRun /\ ex_pc = "idle" /\ ex_in.exists) =>
        \A n \in DOMAIN ex_in.entries :
            ex_in.entries[n].isdir =>
                LET files == GlobAudio(ex_in.entries[n].items)
                    held  == AmplitudeRows(<<OkWav>>, NotADate, <<>>, 1)
                IN  Len(files) <= 5 =>
                        \A k \in 1..4, cap \in 1..3, acc \in {<<>>, held} :
                            Len(acc) < cap =>
                                FolderRows(files, n, acc, k, cap)
                                    = { AmplitudeRows(f, n, acc, cap) :
                                          f \in Samples(files, k) }

\* The loop over a day folder never leaves more rows than the cap and keeps
\* the rows held before it; MAX_TOTAL_FILES rows are more than a checked
\* state can hold, so this is compared for caps of 1 to 3 rows on the day
\* folders of up to five audio files, samples of 1 to 4 files included.
RowsNeverExceedTheCap ==
    (AmplitudeRun /\ ex_pc = "idle" /\ ex_in.exists) =>
        \A n \in DOMAIN ex_in.entries :
            ex_in.entries[n].isdir =>
                LET files == GlobAudio(ex_in.entries[n].items)
                    held  == AmplitudeRows(<<OkWav>>, NotADate, <<>>, 1)
                IN  Len(files) <= 5 =>
                        \A k \in 1..4, cap \in 1..3, acc \in {<<>>, held} :
                            Len(acc) < cap =>
                                \A q \in FolderRows(files, n, acc, k, cap) :
                                    /\ Len(q) <= cap
                                    /\ SubSeq(q, 1, Len(acc)) = acc
                                    /\ Len(q) - Len(acc) <= Min(k, Len(files))

\* The file of ex_in a row was made from: the file of that name in a day
\* folder of the row's date.
SourceFiles(r) ==
    { f \in UNION { {ex_in.entries[n].items[k] :
                        k \in 1..Len(ex_in.entries[n].items)} :
                    n \in FoldersOf(r.date) } : f.name = r.file }

\* C26: in audio_amplitude_scan_sampled, for every decoded file the crest
\* factor is peak/rms when rms > 0 and is the missing value, never infinity
\* and never a division error, when rms = 0; a file with zero samples
\* produces no row.
C26_CrestFactorGuarded ==
    AmplitudeRun =>
        \A i \in 1..Len(ex_rows) :
            LET r == ex_rows[i]
            IN  /\ r.rms_amplitude > 0 =>
                      /\ r.crest_factor # <<>>
                      /\ r.crest_factor[2] > 0
                      /\ r.crest_factor[1] * r.rms_amplitude
                             = r.peak_amplitude * r.crest_factor[2]
                /\ r.rms_amplitude = 0 => r.crest_factor = <<>>
                /\ SourceFiles(r) # {}
                /\ \A f \in SourceFiles(r) :
                      /\ f.loads /\ f.samples > 0
                      /\ f.rms = r.rms_amplitude /\ f.peak = r.peak_amplitude

\* The scan has ended on a day with a file of crest factor 2, a file
\* without samples and, in the second folder of the day, a silent file.
C26_Witness ==
    /\ AmplitudeRun /\ ex_pc = "done"
    /\ D1 \in DOMAIN ex_in.entries
    /\ ex_in.entries[D1].items = <<OkWav, EmptyWav>>
    /\ Len(ex_rows) = 2
    /\ ex_rows[1].crest_factor = <<2, 1>>
    /\ ex_rows[2].rms_amplitude = 0 /\ ex_rows[2].crest_factor = <<>>
    /\ Len(ex_out.rows) = 2

\* A run that ends with a written file holding no data row.
EmptyOutputWritten ==
    /\ ExEnded /\ ex_pc = "done"
    /\ ex_out.exists /\ ex_out.rows = <<>>
    /\ ex_rows # <<>>

(***************************************************************************)
(* scan_dataset.py: scan_dataset.  A modality root is [exists, entries];   *)
(* entries maps the names under the root to [isdir, content].              *)
(***************************************************************************)
\* utils.py:93-106 with the root given as a path that may not exist:
\* os.listdir raises FileNotFoundError and the function returns [].
list_candidate_folders_of(root) ==
    IF ~ root.exists THEN <<>> ELSE list_candidate_folders(root.entries)

\* utils.py:164-202 as a function of the root: the two lists it returns.
RECURSIVE ScanCandidates(_, _, _, _)
ScanCandidates(root, mod, cands, acc) ==
    IF cands = <<>> THEN acc
    ELSE LET folder == Head(cands)
             pfn    == parse_folder_name(folder)
             stats  == compute_folder_stats(root.entries[folder].content)
         IN  ScanCandidates(root, mod, Tail(cands),
               IF is_valid_date(pfn.date_str)
               THEN [acc EXCEPT !.valid = Append(@,
                        [date |-> pfn.date_str, modality |-> mod,
                         quality |-> pfn.quality, file_count |-> stats[1],
                         total_size |-> stats[2]])]
               ELSE [acc EXCEPT !.invalid = Append(@,
                        [folder_name |-> folder, parsed_date |-> pfn.date_str,
                         modality |-> mod, quality |-> pfn.quality,
                         file_count |-> stats[1], total_size |-> stats[2],
                         reason |-> "invalid_year_or_bad_date"])])

scan_modality_root(root, mod) ==
    ScanCandidates(root, mod, list_candidate_folders_of(root),
                   [valid |-> <<>>, invalid |-> <<>>])

\* Midnight of the day that strptime reads in a text, NaT for ValueError.
strptime_stamp(s) ==
    IF strptime_ymd(s) = <<>> THEN NaT
    ELSE Stamp(CalendarDay(strptime_ymd(s)[1], strptime_ymd(s)[2],
                           strptime_ymd(s)[3]), 0)

\* The rows of a frame whose dates are not NaT, in every order that
\* sort_values("date") can leave them in: it does not fix the order of rows
\* with the same date.
SortedRows(fr) ==
    { [i \in 1..Len(fr) |-> fr[p[i]]] :
        p \in { q \in [1..Len(fr) -> 1..Len(fr)] :
                  /\ \A i, j \in 1..Len(fr) : q[i] = q[j] => i = j
                  /\ \A i \in 1..(Len(fr) - 1) :
                        ~ DateLess(fr[q[i + 1]].date, fr[q[i]].date) } }

\* scan_dataset.py:52-54: the dates parsed, the rows without a date
\* dropped, the rest sorted by date.  The date of a valid record is one
\* that strptime has read (utils.py:83), four, two and two decimal digits.
\* Written in ASCII digits it is parsed by pandas' own parser (to_datetime
\* above).  With a digit that is not ASCII that parser gives it up; the
\* column then either holds NaT there, or the build's fallback parser has
\* read the digits by their values as strptime does: both columns are
\* possible results.
SortedFrames(recs, parser) ==
    LET strict == to_datetime([i \in 1..Len(recs) |-> recs[i].date], parser)
        read   == [i \in 1..Len(recs) |->
                     IF strict[i] # NaT THEN strict[i]
                     ELSE strptime_stamp(recs[i].date)]
    IN  UNION { SortedRows(SelectSeq([i \in 1..Len(recs) |->
                                        [recs[i] EXCEPT !.date = dates[i]]],
                                     LAMBDA r : r.date # NaT)) :
                  dates \in {strict, read} }

\* 2024-05-11 with an Arabic-Indic digit one: a date strptime reads
ArabicIndicDay == Num4(2024) \o <<"-">> \o Num2(5) \o <<"-", "1", "u0661">>

DsNamePool ==
    { D1, D1 \o <<"_", "h">>, DateName(2021, 5, 1),
      DateName(2023, 2, 29) \o <<"_", "l">>, NotADate, ArabicIndicDay }

RECURSIVE DsNameSets(_)
DsNameSets(k) ==
    IF k = 0 THEN {{}}
    ELSE LET P == DsNameSets(k - 1)
         IN  P \cup { S \cup {x} : S \in P, x \in DsNamePool }

Root(entries) == [exists |-> TRUE, entries |-> entries]

ImgRoots ==
    {NoRoot} \cup { Root(e) : e \in UNION { [S -> EntryKinds] : S \in DsNameSets(MaxEntries) } }

SndRoots ==
    { NoRoot, Root(<< >>),
      Root(D2 :> [isdir |-> TRUE, content |-> MixedContent]),
      Root(DateName(2026, 1, 1) :> [isdir |-> TRUE, content |-> NoContent]) }

InitDataset ==
    /\ prog = "scan_dataset.scan_dataset"
    /\ pandas \in PandasParsers
    /\ \E i \in ImgRoots, a \in SndRoots : ds_roots = [img |-> i, snd |-> a]
    /\ ds_scans = [img_valid |-> <<>>, img_invalid |-> <<>>,
                   snd_valid |-> <<>>, snd_invalid |-> <<>>]
    /\ ds_out = [summary |-> NoFile, invalid |-> NoFile]
    /\ ds_pc = "idle"
    /\ ScanIdle /\ AggIdle /\ PoolIdle /\ FlatIdle /\ JoinIdle /\ ExIdle
    /\ LateIdle

\* scan_dataset.py:39
DsScanImage ==
    /\ prog = "scan_dataset.scan_dataset"
    /\ ds_pc = "idle"
    /\ LET r == scan_modality_root(ds_roots.img, "image")
       IN  ds_scans' = [ds_scans EXCEPT !.img_valid = r.valid,
                                        !.img_invalid = r.invalid]
    /\ ds_pc' = "image_scanned"
    /\ UNCHANGED <<prog, pandas, ds_roots, ds_out,
                   scanVars, aggVars, poolVars, flatVars, joinVars, exVars,
                   lateVars>>

\* scan_dataset.py:40
DsScanAudio ==
    /\ prog = "scan_dataset.scan_dataset"
    /\ ds_pc = "image_scanned"
    /\ LET r == scan_modality_root(ds_roots.snd, "audio")
       IN  ds_scans' = [ds_scans EXCEPT !.snd_valid = r.valid,
                                        !.snd_invalid = r.invalid]
    /\ ds_pc' = "audio_scanned"
    /\ UNCHANGED <<prog, pandas, ds_roots, ds_out,
                   scanVars, aggVars, poolVars, flatVars, joinVars, exVars,
                   lateVars>>

\* A file that DataFrame.to_csv(index=False) has written: the frame of a
\* list of records has their columns, whatever rows are dropped later, and
\* the file starts with the header line; the frame of an empty list has no
\* columns and the file has no header line.
CsvFile(records, frame) ==
    [exists |-> TRUE, header |-> records # <<>>, rows |-> frame]

\* scan_dataset.py:43, 49-56
DsSaveValid ==
    /\ prog = "scan_dataset.scan_dataset"
    /\ ds_pc = "audio_scanned"
    /\ \E f \in SortedFrames(ds_scans.img_valid \o ds_scans.snd_valid, pandas) :
          ds_out' = [ds_out EXCEPT !.summary =
                        CsvFile(ds_scans.img_valid \o ds_scans.snd_valid, f)]
    /\ ds_pc' = "valid_saved"
    /\ UNCHANGED <<prog, pandas, ds_roots, ds_scans,
                   scanVars, aggVars, poolVars, flatVars, joinVars, exVars,
                   lateVars>>

\* scan_dataset.py:44, 61-62
DsSaveInvalid ==
    /\ prog = "scan_dataset.scan_dataset"
    /\ ds_pc = "valid_saved"
    /\ ds_out' = [ds_out EXCEPT !.invalid =
                     CsvFile(ds_scans.img_invalid \o ds_scans.snd_invalid,
                             ds_scans.img_invalid \o ds_scans.snd_invalid)]
    /\ ds_pc' = "done"
    /\ UNCHANGED <<prog, pandas, ds_roots, ds_scans,
                   scanVars, aggVars, poolVars, flatVars, joinVars, exVars,
                   lateVars>>

NextDataset == DsScanImage \/ DsScanAudio \/ DsSaveValid \/ DsSaveInvalid

SpecDataset == InitDataset /\ [][NextDataset]_vars

(***************************************************************************)
(* Properties of scan_dataset                                              *)
(***************************************************************************)
DatasetRun == prog = "scan_dataset.scan_dataset"

RootMissing == ~ ds_roots.img.exists \/ ~ ds_roots.snd.exists

\* C20: when a modality root given to the folder scan does not exist, the
\* run fails fatally and writes no summary file; the missing root is not
\* treated as an empty directory.
C20_MissingRootIsFatal ==
    (DatasetRun /\ RootMissing) =>
        /\ ~ ds_out.summary.exists
        /\ ~ ds_out.invalid.exists
        /\ ds_pc # "done"

\* What scan_dataset does with a missing root: it scans it as a directory
\* without entries, and the run ends with both summary files written.
MissingRootScansAsEmpty ==
    (DatasetRun /\ ds_pc = "done") =>
        /\ ds_out.summary.exists /\ ds_out.invalid.exists
        /\ ~ ds_roots.img.exists =>
              (ds_scans.img_valid = <<>> /\ ds_scans.img_invalid = <<>>)
        /\ ~ ds_roots.snd.exists =>
              (ds_scans.snd_valid = <<>> /\ ds_scans.snd_invalid = <<>>)
        /\ ds_out.summary \in
              { CsvFile(ds_scans.img_valid \o ds_scans.snd_valid, f) :
                  f \in SortedFrames(ds_scans.img_valid \o ds_scans.snd_valid,
                                     pandas) }
        /\ ds_out.invalid.rows = ds_scans.img_invalid \o ds_scans.snd_invalid

(***************************************************************************)
(* utils.py: compute_folder_stats called on one folder.  A child is a      *)
(* regular file (isfile) or anything else (a sub-folder, a dangling link); *)
(* stat_ok tells whether os.path.getsize succeeds on it.                   *)
(***************************************************************************)
MaxChildren == 3      \* entries of the folder given to compute_folder_stats

Child(isfile, size, stat_ok) == [isfile |-> isfile, size |-> size, stat_ok |-> stat_ok]

ChildPool ==
    { Child(TRUE, 3, TRUE), Child(TRUE, 0, TRUE), Child(TRUE, 4, FALSE),
      Child(FALSE, 5, TRUE) }

FolderContents ==
    { [listable |-> TRUE, children |-> c] : c \in SeqsUpTo(ChildPool, MaxChildren) }
    \cup { NoContent, [listable |-> FALSE, children |-> <<Child(TRUE, 3, TRUE)>>] }

InitStats ==
    /\ prog = "compute_folder_stats"
    /\ pandas = "cell by cell"
    /\ st_content \in FolderContents
    /\ st_result = <<0, 0>>
    /\ st_pc = "call"
    /\ val_report = NoReport
    /\ val_pc = "idle"
    /\ pair_sets = NoPairSets
    /\ pair_out = NoFile
    /\ pair_pc = "idle"
    /\ ScanIdle /\ AggIdle /\ PoolIdle /\ FlatIdle /\ JoinIdle /\ ExIdle /\ DsIdle

\* utils.py:133-157
StatsCall ==
    /\ prog = "compute_folder_stats"
    /\ st_pc = "call"
    /\ st_result' = compute_folder_stats(st_content)
    /\ st_pc' = "returned"
    /\ UNCHANGED <<prog, pandas, st_content, val_report, val_pc, pair_sets, pair_out,
                   pair_pc, scanVars, aggVars, poolVars, flatVars, joinVars,
                   exVars, dsVars>>

NextStats == StatsCall

SpecStats == InitStats /\ [][NextStats]_vars

\* The regular files among the children, by index.
RegularFiles == {i \in 1..Len(st_content.children) : st_content.children[i].isfile}

RECURSIVE SizeSum(_)
SizeSum(I) ==
    IF I = {} THEN 0
    ELSE LET i == CHOOSE x \in I : TRUE
         IN  st_content.children[i].size + SizeSum(I \ {i})

\* C24: compute_folder_stats never fails the folder's record: if listing the
\* folder fails it returns (0, 0); a file whose size cannot be read is still
\* counted in file_count, adds 0 to total_size, and the files after it are
\* still processed; file_count and total_size are >= 0 and only the regular
\* files directly under the folder are counted.
C24_FolderStatsTolerateErrors ==
    /\ prog = "compute_folder_stats" => st_pc \in {"call", "returned"}
    /\ st_pc = "returned" =>
          /\ st_result[1] >= 0 /\ st_result[2] >= 0
          /\ ~ st_content.listable => st_result = <<0, 0>>
          /\ st_content.listable =>
                /\ st_result[1] = Cardinality(RegularFiles)
                /\ st_result[2] =
                      SizeSum({i \in RegularFiles : st_content.children[i].stat_ok})

\* The call has returned for a folder where a file whose size cannot be
\* read comes before a sub-folder and a readable file of 3 bytes.
C24_Witness ==
    /\ st_pc = "returned"
    /\ st_content.listable
    /\ st_content.children =
          <<Child(TRUE, 4, FALSE), Child(FALSE, 5, TRUE), Child(TRUE, 3, TRUE)>>
    /\ st_result = <<2, 3>>

(***************************************************************************)
(* The scripts that load tables or logs written by an earlier stage:       *)
(* the three daily aggregators, the two joins and the log flattener.       *)
(***************************************************************************)
InitLoaders == InitAgg \/ InitJoin \/ InitFlat

NextLoaders == NextAgg \/ NextJoin \/ NextFlat

SpecLoaders == InitLoaders /\ [][NextLoaders]_vars

AggMissingInput == prog \in AggScripts /\ ~ in_csv.exists

JoinMissingInput ==
    prog = "daily_join" /\ \E t \in {"a", "b", "c"} : ~ join_in[t].exists

FlatMissingInput ==
    /\ prog = "parse_logs_to_csv"
    /\ \A n \in DOMAIN logs_root : Prefix(n, Len(TrafficTxt)) # TrafficTxt

\* C21: in audio_quality_daily, image_quality_daily, logs_daily_summary,
\* daily_join and parse_logs_to_csv, when a required input file is missing
\* (for the flattener: no traffic.txt* file under the logs root) the run
\* ends with an error before the output file is created or modified; for
\* daily_join this holds when any one of the three inputs is missing.
C21_MissingInputEndsBeforeOutput ==
    /\ [](AggMissingInput => agg_pc \in {"start", "failed"})
    /\ [](JoinMissingInput =>
             /\ join_pc \in {"start", "failed"}
             /\ join_pc = "failed" => join_err # "none")
    /\ [](FlatMissingInput => flat_pc \in {"start", "exit1"})
    /\ [][(AggMissingInput \/ JoinMissingInput \/ FlatMissingInput) =>
             /\ out_csv' = out_csv /\ out_writes' = out_writes
             /\ join_out' = join_out /\ corr_out' = corr_out
             /\ flat_out' = flat_out]_vars

\* daily_join has stopped on the missing logs table, the two files of an
\* earlier run untouched.
C21_Witness ==
    /\ prog = "daily_join"
    /\ join_in.a.exists /\ join_in.b.exists /\ ~ join_in.c.exists
    /\ join_pc = "failed"
    /\ join_err = "file"
    /\ join_out = OldJoined
    /\ corr_out = OldCorr

\* The same for one aggregator and for the flattener.
MissingInputOtherRuns ==
    \/ AggMissingInput /\ agg_pc = "failed" /\ out_csv.exists
    \/ FlatMissingInput /\ flat_pc = "exit1" /\ flat_out.exists

JoinTables == {"a", "b", "c"}

LacksDate(t) == t.exists /\ "date" \notin t.cols

LacksTotalFiles == join_in.a.exists /\ "total_files" \notin join_in.a.cols

DailyJoinLacksColumn ==
    /\ prog = "daily_join"
    /\ (\E t \in JoinTables : LacksDate(join_in[t])) \/ LacksTotalFiles

LogsSummaryLacksDate ==
    prog = "logs_daily_summary" /\ in_csv.exists /\ ~ in_has_date

\* C22: in daily_join, if any of the three input tables lacks the date
\* column or the counts table lacks total_files, the run aborts with an
\* error naming the missing column, before the merge is performed and before
\* the joined table or the correlation matrix is written;
\* logs_daily_summary likewise aborts before writing when its input lacks
\* date.  The error names a column that is missing whenever the three files
\* exist; when a file is missing too, it may be the error of that file.
C22_MissingColumnAbortsBeforeMerge ==
    /\ [](DailyJoinLacksColumn =>
             /\ join_pc \in {"start", "failed"}
             /\ joined = [cols |-> {}, rows |-> <<>>]
             /\ join_pc = "failed" => join_err \in {"file", "date", "total_files"}
             /\ (join_pc = "failed" /\ \A t \in JoinTables : join_in[t].exists) =>
                    join_err \in {"date", "total_files"}
             /\ join_err = "date" => \E t \in JoinTables : LacksDate(join_in[t])
             /\ join_err = "total_files" => LacksTotalFiles)
    /\ [](LogsSummaryLacksDate => agg_pc \in {"start", "failed"})
    /\ [][(DailyJoinLacksColumn \/ LogsSummaryLacksDate) =>
             /\ join_out' = join_out /\ corr_out' = corr_out
             /\ out_csv' = out_csv /\ out_writes' = out_writes]_vars

\* daily_join has stopped on a counts table with a date column and no
\* total_files column, after loading the two other tables.
C22_Witness ==
    /\ prog = "daily_join"
    /\ \A t \in JoinTables : join_in[t].exists /\ "date" \in join_in[t].cols
    /\ LacksTotalFiles
    /\ join_pc = "failed"
    /\ join_err = "total_files"
    /\ join_out = OldJoined
    /\ corr_out = OldCorr

(***************************************************************************)
(* utils.py: the folder lists validate_scan and folder_pairing use.        *)
(***************************************************************************)
\* The white space int() strips: that of str.split() without the four
\* separator characters U+001C..U+001F.
IntSpaceChars == SpaceChars \ {"u001c", "u001d", "u001e", "u001f"}

\* A string without its leading and trailing white space.
RECURSIVE StripBlanks(_)
StripBlanks(s) ==
    IF s = <<>> THEN s
    ELSE IF Head(s) \in IntSpaceChars THEN StripBlanks(Tail(s))
    ELSE IF s[Len(s)] \in IntSpaceChars THEN StripBlanks(SubSeq(s, 1, Len(s) - 1))
    ELSE s

\* int(text) for the texts int accepts in base 10: blanks around, an
\* optional sign, digits with single underscores between them.  The result
\* is <<value>>, or <<>> for ValueError.
int_of(text) ==
    LET t    == StripBlanks(text)
        neg  == t # <<>> /\ Head(t) = "-"
        body == IF t # <<>> /\ Head(t) \in {"+", "-"} THEN Tail(t) ELSE t
        ok   == /\ body # <<>>
                /\ IsDigit(body[1]) /\ IsDigit(body[Len(body)])
                /\ \A i \in 1..Len(body) : IsDigit(body[i]) \/ body[i] = "_"
                /\ \A i \in 1..(Len(body) - 1) :
                      ~ (body[i] = "_" /\ body[i + 1] = "_")
        v    == DigitsValue(SelectSeq(body, IsDigit))
    IN  IF ~ ok THEN <<>> ELSE IF neg THEN <<0 - v>> ELSE <<v>>

\* utils.py:65-73
is_valid_year(date_str) ==
    LET year == int_of(SubSeq(date_str, 1, Min(4, Len(date_str))))
    IN  IF year = <<>> THEN FALSE
        ELSE VALID_YEAR_MIN <= year[1] /\ year[1] <= VALID_YEAR_MAX

\* Variant of list_valid_folders that keeps the folders whose date
\* is_valid_date accepts, as scan_modality_root does.
list_valid_folders_RealDates(root) ==
    SelectSeq(list_candidate_folders_of(root),
              LAMBDA d : is_valid_date(extract_date(d)))

\* utils.py:109-119; the candidates are sorted, and so is what is kept
list_valid_folders(root) ==
    SelectSeq(list_candidate_folders_of(root),
              LAMBDA d : is_valid_year(extract_date(d)))

\* utils.py:122-130
list_invalid_year_folders(root) ==
    SelectSeq(list_candidate_folders_of(root),
              LAMBDA d : ~ is_valid_year(extract_date(d)))

\* Timestamp.strftime("%Y-%m-%d")
strftime_ymd(d) ==
    Num4(d.day \div 10000) \o <<"-">> \o Num2((d.day \div 100) % 100)
        \o <<"-">> \o Num2(d.day % 100)

\* The elements of a sequence.
Elems(s) == {s[i] : i \in 1..Len(s)}

(***************************************************************************)
(* validate_scan.py run after scan_dataset.py on the same roots: it reads  *)
(* the summary scan_dataset wrote.  The dates of the summary are written   *)
(* as YYYY-MM-DD texts and parsed back by read_csv.                        *)
(***************************************************************************)
\* validate_scan.py:73-78: the dates of one modality in the CSV, as texts
csv_dates(summary, mod) ==
    { strftime_ymd(summary[i].date) : i \in {j \in 1..Len(summary) : summary[j].modality = mod} }

\* validate_scan.py:54-90: the four lists of the report
validate_report(roots, summary) ==
    LET img_dates == {extract_date(f) : f \in Elems(list_valid_folders(roots.img))}
        snd_dates == {extract_date(f) : f \in Elems(list_valid_folders(roots.snd))}
        csv_img_dates == csv_dates(summary, "image")
        csv_snd_dates == csv_dates(summary, "audio")
    IN  [missing_img    |-> SortedStrings(img_dates \ csv_img_dates),
         missing_snd    |-> SortedStrings(snd_dates \ csv_snd_dates),
         unexpected_img |-> SortedStrings(csv_img_dates \ img_dates),
         unexpected_snd |-> SortedStrings(csv_snd_dates \ snd_dates)]

\* validate_scan.py:42-49: read_csv with parse_dates=["date"].  It raises
\* for a file that is not there and for a file without columns, the
\* summary of a scan without any valid record: the error is printed and
\* main returns.  A summary with its header line is loaded, also when it
\* has no data row.
ValLoad ==
    /\ prog = "scan_dataset.scan_dataset"
    /\ ds_pc = "done"
    /\ val_pc = "idle"
    /\ prog' = "validate_scan"
    /\ pandas' = pandas
    /\ val_pc' = IF ds_out.summary.exists /\ ds_out.summary.header
                 THEN "loaded" ELSE "read_error"
    /\ UNCHANGED <<val_report, st_content, st_result, st_pc,
                   pair_sets, pair_out, pair_pc, dsVars,
                   scanVars, aggVars, poolVars, flatVars, joinVars, exVars>>

\* validate_scan.py:54-90.  The date column of a summary with data rows
\* holds timestamps.  That of a summary without data rows holds nothing
\* to parse, and its type depends on the pandas build: a column of
\* timestamps, with no date for either modality, or a column of objects,
\* on which .dt at line 74 raises AttributeError, which nothing catches.
ValCompare ==
    /\ prog = "validate_scan"
    /\ val_pc = "loaded"
    /\ \/ /\ val_report' = validate_report(ds_roots, ds_out.summary.rows)
          /\ val_pc' = "done"
       \/ /\ ds_out.summary.rows = <<>>
          /\ val_report' = val_report
          /\ val_pc' = "AttributeError"
    /\ UNCHANGED <<prog, pandas, st_content, st_result, st_pc,
                   pair_sets, pair_out, pair_pc, dsVars,
                   scanVars, aggVars, poolVars, flatVars, joinVars, exVars>>

NextValidate == NextDataset \/ ValLoad \/ ValCompare

SpecValidate == InitDataset /\ [][NextValidate]_vars

(***************************************************************************)
(* Properties of validate_scan                                             *)
(***************************************************************************)
\* The dates of the valid records of a scan, and the folders of its
\* invalid records.
ScanDates(recs) == {recs[i].date : i \in 1..Len(recs)}

ScanFolders(recs) == {recs[i].folder_name : i \in 1..Len(recs)}

BothRoots == {<<ds_roots.img, "image">>, <<ds_roots.snd, "audio">>}

\* C27: for every set of folder names under a modality root, the set of
\* dates obtained from list_valid_folders equals the set of dates of
\* scan_modality_root's valid records, and list_invalid_year_folders equals
\* the folders of its invalid records, so that validate_scan run directly
\* after scan_dataset on the same unchanged directory tree reports no
\* missing and no unexpected dates.
C27_ValidateAgreesWithScan ==
    /\ \A rm \in BothRoots :
          LET r == scan_modality_root(rm[1], rm[2])
          IN  /\ {extract_date(f) : f \in Elems(list_valid_folders(rm[1]))}
                    = ScanDates(r.valid)
              /\ Elems(list_invalid_year_folders(rm[1])) = ScanFolders(r.invalid)
    /\ (prog = "validate_scan" /\ val_pc = "done") => val_report = NoReport

\* A date of four, two and two digits that are all ASCII: the text that
\* to_csv and strftime write for its day.
WrittenInAscii(d) ==
    is_valid_date(d) /\ strftime_ymd(strptime_stamp(d)) = d

\* What the code ensures: the lists of utils.py test the year alone, so
\* they hold the scan's valid dates and, besides, the folders whose year is
\* in range while the date does not exist.  validate_scan reports those as
\* missing, and with them the valid dates that are not written in ASCII
\* digits, which the summary either lacks or holds in ASCII digits; only
\* the latter are reported as unexpected.
ValidateReportsImpossibleOrRewrittenDates ==
    /\ \A rm \in BothRoots :
          LET r == scan_modality_root(rm[1], rm[2])
          IN  /\ ScanDates(r.valid)
                    \subseteq {extract_date(f) : f \in Elems(list_valid_folders(rm[1]))}
              /\ Elems(list_invalid_year_folders(rm[1]))
                    \subseteq ScanFolders(r.invalid)
              /\ \A f \in ScanFolders(r.invalid) \ Elems(list_invalid_year_folders(rm[1])) :
                    is_valid_year(extract_date(f)) /\ ~ is_valid_date(extract_date(f))
    /\ (prog = "validate_scan" /\ val_pc = "done") =>
          /\ \A d \in Elems(val_report.missing_img) \cup Elems(val_report.missing_snd) :
                is_valid_year(d) /\ ~ WrittenInAscii(d)
          /\ \A rm \in {<<ds_roots.img, val_report.unexpected_img>>,
                         <<ds_roots.snd, val_report.unexpected_snd>>} :
                \A d \in Elems(rm[2]) :
                   \E f \in Elems(list_valid_folders(rm[1])) :
                      /\ is_valid_date(extract_date(f))
                      /\ ~ WrittenInAscii(extract_date(f))
                      /\ strftime_ymd(strptime_stamp(extract_date(f))) = d

\* validate_scan has compared a tree with a folder of an impossible date.
ValidateSawImpossibleDate ==
    /\ prog = "validate_scan" /\ val_pc = "done"
    /\ val_report.missing_img = <<DateName(2023, 2, 29)>>
    /\ Len(ds_out.summary.rows) >= 2

\* validate_scan has loaded a summary that is a header line only, written
\* by a scan whose one valid record lost its date, and has ended either
\* with the report or at line 74.
ValidateLoadedHeaderOnly ==
    /\ prog = "validate_scan" /\ val_pc = "AttributeError"
    /\ ds_out.summary.header /\ ds_out.summary.rows = <<>>
    /\ Len(ds_scans.img_valid) = 1

ValidateComparedHeaderOnly ==
    /\ prog = "validate_scan" /\ val_pc = "done"
    /\ ds_out.summary.header /\ ds_out.summary.rows = <<>>
    /\ val_report.missing_img = <<ArabicIndicDay>>

\* validate_scan has compared a summary in which a date of the tree stands
\* in ASCII digits.
ValidateSawRewrittenDate ==
    /\ prog = "validate_scan" /\ val_pc = "done"
    /\ val_report.missing_img = <<ArabicIndicDay>>
    /\ val_report.unexpected_img = <<DateName(2024, 5, 11)>>

\* validate_scan has ended at the read error: the scan had no valid record.
ValidateReadError ==
    /\ prog = "validate_scan" /\ val_pc = "read_error"
    /\ ds_scans.img_valid \o ds_scans.snd_valid = <<>>
    /\ ds_roots.img.exists /\ ds_roots.img.entries # << >>

(***************************************************************************)
(* folder_pairing.py: the valid folders of the two roots paired by date.   *)
(***************************************************************************)
\* Variant of pair_status that never answers paired.
pair_status_NeverPaired(has_image, has_audio) ==
    IF has_image THEN "image_only"
    ELSE IF has_audio THEN "audio_only"
    ELSE "missing_both"

\* folder_pairing.py:81-87
pair_status(has_image, has_audio) ==
    IF has_image /\ has_audio THEN "paired"
    ELSE IF has_image THEN "image_only"
    ELSE IF has_audio THEN "audio_only"
    ELSE "missing_both"

\* folder_pairing.py:38-52: the date sets and the pairing relations
pairing_sets(roots) ==
    LET img_set == {extract_date(f) : f \in Elems(list_valid_folders(roots.img))}
        snd_set == {extract_date(f) : f \in Elems(list_valid_folders(roots.snd))}
    IN  [img |-> img_set, snd |-> snd_set,
         paired   |-> SortedStrings(img_set \cap snd_set),
         img_only |-> SortedStrings(img_set \ snd_set),
         snd_only |-> SortedStrings(snd_set \ img_set)]

\* folder_pairing.py:75-87: the rows of the summary
pairing_rows(img_set, snd_set) ==
    LET dates == SortedStrings(img_set \cup snd_set)
    IN  [i \in 1..Len(dates) |->
            [date        |-> dates[i],
             has_image   |-> dates[i] \in img_set,
             has_audio   |-> dates[i] \in snd_set,
             pair_status |-> pair_status(dates[i] \in img_set,
                                         dates[i] \in snd_set)]]

\* Audio roots for the pairing: dates the image roots have, and others.
PairSndRoots ==
    SndRoots \cup
    { Root(D1 :> [isdir |-> TRUE, content |-> NoContent]),
      Root((D1 \o <<"_", "l">>) :> [isdir |-> TRUE, content |-> NoContent]
           @@ D2 :> [isdir |-> TRUE, content |-> NoContent]),
      Root((DateName(2023, 2, 29) \o <<"_", "h">>)
               :> [isdir |-> TRUE, content |-> NoContent]) }

InitPairing ==
    /\ prog = "folder_pairing"
    /\ pandas = "cell by cell"
    /\ \E i \in ImgRoots, a \in PairSndRoots : ds_roots = [img |-> i, snd |-> a]
    /\ ds_scans = [img_valid |-> <<>>, img_invalid |-> <<>>,
                   snd_valid |-> <<>>, snd_invalid |-> <<>>]
    /\ ds_out = [summary |-> NoFile, invalid |-> NoFile]
    /\ ds_pc = "idle"
    /\ ScanIdle /\ AggIdle /\ PoolIdle /\ FlatIdle /\ JoinIdle /\ ExIdle
    /\ LateIdle

\* folder_pairing.py:38-53
PairList ==
    /\ prog = "folder_pairing"
    /\ pair_pc = "idle"
    /\ pair_sets' = pairing_sets(ds_roots)
    /\ pair_pc' = "listed"
    /\ UNCHANGED <<prog, pandas, pair_out, st_content, st_result, st_pc,
                   val_report, val_pc, dsVars,
                   scanVars, aggVars, poolVars, flatVars, joinVars, exVars>>

\* folder_pairing.py:75-89.  For a frame without rows, what
\* df["pair_status"] = df.apply(..., axis=1) does depends on the pandas
\* version (apply returns an empty frame, whose assignment to one column is
\* accepted or raises ValueError): either the summary is written without
\* rows or the run ends at the error.
PairWrite ==
    /\ prog = "folder_pairing"
    /\ pair_pc = "listed"
    /\ LET rs == pairing_rows(pair_sets.img, pair_sets.snd)
       IN  \/ /\ pair_out' = [exists |-> TRUE, rows |-> rs]
              /\ pair_pc' = "done"
           \/ /\ rs = <<>>
              /\ pair_out' = pair_out
              /\ pair_pc' = "failed"
    /\ UNCHANGED <<prog, pandas, pair_sets, st_content, st_result, st_pc,
                   val_report, val_pc, dsVars,
                   scanVars, aggVars, poolVars, flatVars, joinVars, exVars>>

NextPairing == PairList \/ PairWrite

SpecPairing == InitPairing /\ [][NextPairing]_vars

(***************************************************************************)
(* Properties of folder_pairing                                            *)
(***************************************************************************)
\* The dates of the folders of a root that are directories, match the
\* folder pattern and have a year in the valid range.
ValidDatesOf(root) ==
    IF ~ root.exists THEN {}
    ELSE { IF FirstUnderscore(n) = 0 THEN n
           ELSE SubSeq(n, 1, FirstUnderscore(n) - 1) :
             n \in { m \in DOMAIN root.entries :
                       /\ root.entries[m].isdir
                       /\ FOLDER_PATTERN_match(m)
                       /\ DigitsValue(SubSeq(m, 1, 4))
                              \in VALID_YEAR_MIN..VALID_YEAR_MAX } }

\* The rows of the written summary with date d.
PairRowsOf(d) == {i \in 1..Len(pair_out.rows) : pair_out.rows[i].date = d}

\* C30: in folder_pairing, every date in the union of the valid image and
\* audio dates gets exactly one row and exactly one pair_status among
\* paired, image_only and audio_only, paired exactly when the date is in
\* both sets; the status missing_both is never produced, and the paired,
\* image-only and audio-only date sets are pairwise disjoint and together
\* equal the union.
C30_OneRowAndStatusPerDate ==
    LET I == ValidDatesOf(ds_roots.img)
        A == ValidDatesOf(ds_roots.snd)
        P == Elems(pair_sets.paired)
        O == Elems(pair_sets.img_only)
        S == Elems(pair_sets.snd_only)
    IN  /\ (prog = "folder_pairing" /\ pair_pc \in {"listed", "done", "failed"}) =>
              /\ P \cap O = {} /\ P \cap S = {} /\ O \cap S = {}
              /\ P \cup O \cup S = I \cup A
              /\ P = I \cap A
        /\ (prog = "folder_pairing" /\ pair_pc = "done") =>
              /\ \A d \in I \cup A : Cardinality(PairRowsOf(d)) = 1
              /\ \A i \in 1..Len(pair_out.rows) :
                    LET r == pair_out.rows[i]
                    IN  /\ r.date \in I \cup A
                        /\ r.pair_status \in {"paired", "image_only", "audio_only"}
                        /\ r.pair_status = "paired" <=> r.date \in I \cap A
                        /\ r.pair_status = "image_only" <=> r.date \in I \ A
                        /\ r.pair_status = "audio_only" <=> r.date \in A \ I

\* C30 witness: the written summary holds a paired date (from the folders
\* 2024-06-01_h and 2024-06-01_l), an image-only and an audio-only date.
C30_Witness ==
    /\ prog = "folder_pairing" /\ pair_pc = "done"
    /\ Len(pair_out.rows) = 3
    /\ \E i \in 1..3 : /\ pair_out.rows[i].date = D1
                       /\ pair_out.rows[i].pair_status = "paired"
    /\ \E i \in 1..3 : pair_out.rows[i].pair_status = "image_only"
    /\ \E i \in 1..3 : /\ pair_out.rows[i].date = D2
                       /\ pair_out.rows[i].pair_status = "audio_only"
    /\ D1 \notin DOMAIN ds_roots.img.entries
    /\ D1 \notin DOMAIN ds_roots.snd.entries

(***************************************************************************)
(* All scripts together: a run executes one of them.                       *)
(***************************************************************************)
Init ==
    \/ InitScan \/ InitAgg \/ InitPool
    \/ InitFlat \/ InitJoin \/ InitExtract \/ InitDataset
    \/ InitStats \/ InitPairing

Next ==
    \/ NextScan \/ NextAgg \/ NextPool
    \/ NextFlatTwice \/ NextJoin \/ NextExtract \/ NextValidate
    \/ NextStats \/ NextPairing

Spec == Init /\ [][Next]_vars

=============================================================================
